---- MODULE Spec2Model ----
(***************************************************************************)
(* A model of origami's page composition stage                             *)
(* (src/origami/batch/detect/compose.py): the Document that is built from  *)
(* the per-page artifacts, the reading-order reconstruction that merges    *)
(* regionless lines (RegionReadingOrder), the plain-text composer          *)
(* (PlainTextComposition) and the PAGE XML export of the four region kinds.*)
(*                                                                         *)
(* A path is a tuple of strings, ("regions", "TEXT", "1") for a block and  *)
(* ("regions", "TEXT", "1", "0") for a line.  A polygon is the set of the  *)
(* points it covers; the empty polygon is the empty set.  A dict is a      *)
(* function, a list is a sequence, None is the value None.                 *)
(***************************************************************************)
EXTENDS Integers, Sequences, FiniteSets, TLC

VARIABLES
    input,          \* the artifacts of the page: regions, lines, sorted_ocr, order
    block_filter,   \* ComposeProcessor._block_filter (None or a path prefix)
    pc,             \* position of ComposeProcessor.process
    regions,        \* Document._regions: block path -> region
    region_lines,   \* Document._region_lines: block path -> [(line path, line)]
    composition,    \* PlainTextComposition: _texts and _path
    calls,          \* the append_text calls made so far (history)
    i,              \* the index of the loop the process is in
    ro,             \* RegionReadingOrder: _ordered_regions, _regionless_text_lines, _region_indices
    px_document,    \* pagexml.Document: the reading-order section and the content section
    exported,       \* the paths of the regions whose export_page_xml was called (history)
    zf,             \* the archive of the page: page.txt and page.xml, <<>> when not written
    err,            \* the exception that ended the run and where it was raised
    outputs         \* block_filter, zf and err of the earlier runs on this Document (history)

vars == <<input, block_filter, pc, regions, region_lines, composition, calls,
          i, ro, px_document, exported, zf, err, outputs>>

----------------------------------------------------------------------------
(* Bounds of the model.                                                    *)

MaxOrder == 3       \* length of the reading order

----------------------------------------------------------------------------
(* Python values.                                                          *)

None == [class |-> "NoneType"]

\* None where a path is expected
NoPath == <<>>

Range(s) == {s[k] : k \in 1..Len(s)}

Max(a, b) == IF a >= b THEN a ELSE b

\* dict.get(key, default)
DictGet(d, key, default) == IF key \in DOMAIN d THEN d[key] ELSE default

\* d[key] = value
DictSet(d, key, value) == [k \in DOMAIN d \cup {key} |-> IF k = key THEN value ELSE d[k]]

IsInjective(q) == \A a, b \in 1..Len(q) : q[a] = q[b] => a = b

\* the sequences of at most n elements of S
RECURSIVE SeqsUpTo(_, _)
SeqsUpTo(S, n) ==
    IF n = 0 THEN {<<>>}
    ELSE LET shorter == SeqsUpTo(S, n - 1)
         IN  shorter \cup {Append(q, x) : q \in {r \in shorter : Len(r) = n - 1}, x \in S}

\* path[:n]
Prefix(path, n) == SubSeq(path, 1, IF n <= Len(path) THEN n ELSE Len(path))

\* sorted(list(s)) for a set of integers
RECURSIVE SortedInts(_)
SortedInts(s) ==
    IF s = {} THEN <<>>
    ELSE LET m == CHOOSE x \in s : \A y \in s : x <= y
         IN  <<m>> \o SortedInts(s \ {m})

Digits == <<"0", "1", "2", "3", "4", "5", "6", "7", "8", "9">>

IsDigit(c) == \E d \in 1..10 : Digits[d] = c

DigitValue(c) == (CHOOSE d \in 1..10 : Digits[d] = c) - 1

\* int(s) for a string of decimal digits
RECURSIVE IntOf(_)
IntOf(s) ==
    IF Len(s) = 0 THEN 0
    ELSE 10 * IntOf(SubSeq(s, 1, Len(s) - 1)) + DigitValue(SubSeq(s, Len(s), Len(s)))

\* str(n) and "%d" % n
Str(n) == ToString(n)

\* s.split(sep) for a separator of one character
RECURSIVE Split(_, _)
Split(s, sep) ==
    IF \A k \in 1..Len(s) : SubSeq(s, k, k) /= sep
    THEN <<s>>
    ELSE LET k == CHOOSE j \in 1..Len(s) :
                      /\ SubSeq(s, j, j) = sep
                      /\ \A h \in 1..(j - 1) : SubSeq(s, h, h) /= sep
         IN  <<SubSeq(s, 1, k - 1)>> \o Split(SubSeq(s, k + 1, Len(s)), sep)

\* sep.join(parts)
RECURSIVE Join(_, _)
Join(sep, parts) ==
    IF Len(parts) = 0 THEN ""
    ELSE IF Len(parts) = 1 THEN parts[1]
    ELSE parts[1] \o sep \o Join(sep, Tail(parts))

IsSpace(c) == c \in {" ", "\n", "\t"}

RECURSIVE LStrip(_)
LStrip(s) ==
    IF Len(s) > 0 /\ IsSpace(SubSeq(s, 1, 1)) THEN LStrip(SubSeq(s, 2, Len(s))) ELSE s

RECURSIVE RStrip(_)
RStrip(s) ==
    IF Len(s) > 0 /\ IsSpace(SubSeq(s, Len(s), Len(s)))
    THEN RStrip(SubSeq(s, 1, Len(s) - 1)) ELSE s

\* s.strip()
Strip(s) == RStrip(LStrip(s))

----------------------------------------------------------------------------
(* Geometry.  A polygon is the set of the points it covers.                *)

EmptyPolygon == {}

\* polygon.is_empty
IsEmpty(polygon) == polygon = {}

\* polygon_union(geoms): the union of the shapes; the convex hull taken when
\* the union is not one polygon covers no point outside the page that the
\* members do not cover, which is all the model keeps of a shape.
PolygonUnion(geoms) == UNION geoms

\* shapely.geometry.box(0, 0, width, height)
Box(width, height) == (0..width) \X (0..height)

\* self._grid.inverse(coords): the dewarping grid of the page moves every
\* point by the displacement the page was dewarped with.
GridInverse(grid, coords) == {<<pt[1] + grid[1], pt[2] + grid[2]>> : pt \in coords}

\* rewarp without the clipping to the page
RewarpUnclipped(in, coords) == GridInverse(in.grid, coords)

\* Document.rewarp(coords)
Rewarp(in, coords) == GridInverse(in.grid, coords) \cap Box(in.size[1], in.size[2])

----------------------------------------------------------------------------
(* Document.                                                               *)

\* TableRegionCombinator(paths).mapping[block_path]: the paths of the blocks
\* that make up the region at block_path, the sub-blocks "<id>.<division>.
\* <row>.<column>" of a table for the table's base path "<id>", the block
\* itself otherwise.
Mapping(paths, block_path) ==
    {p \in paths :
        LET parts == Split(p[3], ".")
        IN  IF Len(parts) > 1
            THEN <<p[1], p[2], parts[1]>> = block_path
            ELSE p = block_path}

\* Document.__init__, region_lines: the line paths filed under each block path
RegionLines(in) ==
    [b \in {Prefix(l, 3) : l \in DOMAIN in.lines} |->
        {l \in DOMAIN in.lines : Prefix(l, 3) = b}]

\* self._region_lines[path] of a defaultdict(list): the lines, and the dict
\* with the key it gained
RegionLinesAt(rl, path) == DictGet(rl, path, {})

RegionLinesTouch(rl, paths) ==
    [b \in DOMAIN rl \cup paths |-> DictGet(rl, b, {})]

\* Document.blocks_and_lines(block_path)
BlocksAndLines(in, rl, block_path) ==
    LET paths == Mapping(DOMAIN in.regions, block_path)
    IN  [blocks |-> paths,
         lines |-> UNION {RegionLinesAt(rl, p) : p \in paths}]

\* Document.reading_order
ReadingOrder(in) == [k \in 1..Len(in.order) |-> Split(in.order[k], "/")]

\* TextRegion.__init__
NewTextRegion(in, rl, block_path) ==
    LET Made(bl) ==
            IF Cardinality(bl.blocks) /= 1 THEN [error |-> "AssertionError"]
            ELSE [error |-> "",
                  region |-> [class |-> "TextRegion",
                              block_path |-> block_path,
                              polygon |-> in.regions[block_path].image_space_polygon,
                              lines |-> bl.lines,
                              line_texts |-> <<>>,
                              order |-> <<>>]]
    IN  Made(BlocksAndLines(in, rl, block_path))

\* TableRegion.__init__: _blocks is keyed by (column, division, row)
NewTableRegion(in, rl, block_path) ==
    LET Key(g) == <<IntOf(g[4]), IntOf(g[2]), IntOf(g[3])>>
        Made(bl, keys) ==
            IF \E path \in bl.blocks : Len(keys[path]) /= 3
            THEN [error |-> "ValueError"]
            ELSE [error |-> "",
                  region |-> [class |-> "TableRegion",
                              block_path |-> block_path,
                              lines |-> bl.lines,
                              divisions |-> {},
                              rows |-> <<>>,
                              columns |-> {},
                              texts |-> <<>>,
                              blocks |-> [k \in {keys[path] : path \in bl.blocks} |->
                                    in.regions[CHOOSE path \in bl.blocks : keys[path] = k]]]]
        Keyed(bl, grids) ==
            Made(bl, [path \in bl.blocks |->
                        IF Len(grids[path]) = 4 THEN Key(grids[path]) ELSE <<>>])
        Split3(bl) == Keyed(bl, [path \in bl.blocks |-> Split(path[3], ".")])
    IN  Split3(BlocksAndLines(in, rl, block_path))

\* GraphicRegion.__init__
NewGraphicRegion(in, rl, block_path) ==
    LET Made(bl) ==
            IF Cardinality(bl.blocks) /= 1 THEN [error |-> "AssertionError"]
            ELSE [error |-> "",
                  region |-> [class |-> "GraphicRegion",
                              block_path |-> block_path,
                              block |-> in.regions[block_path],
                              lines |-> bl.lines]]
    IN  Made(BlocksAndLines(in, rl, block_path))

NewRegion(class, in, rl, block_path) ==
    CASE class = "TextRegion" -> NewTextRegion(in, rl, block_path)
      [] class = "TableRegion" -> NewTableRegion(in, rl, block_path)
      [] class = "GraphicRegion" -> NewGraphicRegion(in, rl, block_path)

\* _add making a region at every call
DocumentAddAnew(in, regs, rl, class, block_path) ==
    LET Added(made, rl2) ==
            IF made.error /= ""
            THEN [error |-> made.error, regions |-> regs, region_lines |-> rl2]
            ELSE [error |-> "", region |-> made.region,
                  regions |-> DictSet(regs, block_path, made.region), region_lines |-> rl2]
    IN  Added(NewRegion(class, in, rl, block_path),
              RegionLinesTouch(rl, Mapping(DOMAIN in.regions, block_path)))

\* Document._add(class_, block_path): the region at block_path, created when
\* there is none, and the dicts as the call leaves them
DocumentAdd(in, regs, rl, class, block_path) ==
    LET Added(made, rl2) ==
            IF made.error /= ""
            THEN [error |-> made.error, regions |-> regs, region_lines |-> rl2]
            ELSE IF made.region.class /= class
            THEN [error |-> "AssertionError",
                  regions |-> DictSet(regs, block_path, made.region), region_lines |-> rl2]
            ELSE [error |-> "", region |-> made.region,
                  regions |-> DictSet(regs, block_path, made.region), region_lines |-> rl2]
    IN  IF block_path \in DOMAIN regs
        THEN Added([error |-> "", region |-> regs[block_path]], rl)
        ELSE Added(NewRegion(class, in, rl, block_path),
                   RegionLinesTouch(rl, Mapping(DOMAIN in.regions, block_path)))

\* add_text keeping the order of the region sorted by the index of the line
AddTextSorted(region, line_path, text) ==
    LET indices == SortedInts({IntOf(l[4]) : l \in Range(region.order) \cup {line_path}})
    IN  [region EXCEPT !.order = [k \in 1..Len(indices) |->
                                    Prefix(line_path, 3) \o <<Str(indices[k])>>],
                       !.line_texts = DictSet(@, line_path, text)]

\* TextRegion.add_text(line_path, text)
AddText(region, line_path, text) ==
    [region EXCEPT !.order = Append(@, line_path),
                   !.line_texts = DictSet(@, line_path, text)]

\* TableRegion.append_cell_text(grid, line_path, text)
AppendCellText(region, grid, line_path, text) ==
    LET division == IntOf(grid[1])
        row == IntOf(grid[2])
        column == IntOf(grid[3])
        cell == <<division, row, column>>
    IN  [region EXCEPT
            !.divisions = @ \cup {division},
            !.rows = DictSet(@, division, DictGet(@, division, {}) \cup {row}),
            !.columns = @ \cup {column},
            !.texts = DictSet(@, cell, Append(DictGet(@, cell, <<>>), <<line_path, text>>))]

\* get taking a confidence at the threshold for one below it
DocumentGetAtThreshold(in, regs, rl, block_path) ==
    LET region == DictGet(regs, block_path, None)
        confidences == {in.lines[l].confidence : l \in RegionLinesAt(rl, block_path)}
    IN  IF region /= None
        THEN [error |-> "", region |-> region, region_lines |-> rl]
        ELSE IF \A c \in confidences : c <= in.min_confidence
        THEN [error |-> "", region |-> None,
              region_lines |-> RegionLinesTouch(rl, {block_path})]
        ELSE [error |-> "RuntimeError", region |-> None,
              region_lines |-> RegionLinesTouch(rl, {block_path})]

\* Document.get(block_path): the region, None, or the error raised; the call
\* reads self._region_lines[block_path], which files the key in the dict
DocumentGet(in, regs, rl, block_path) ==
    LET region == DictGet(regs, block_path, None)
        confidences == {in.lines[l].confidence : l \in RegionLinesAt(rl, block_path)}
    IN  IF region /= None
        THEN [error |-> "", region |-> region, region_lines |-> rl]
        ELSE IF \A c \in confidences : c < in.min_confidence
        THEN [error |-> "", region |-> None,
              region_lines |-> RegionLinesTouch(rl, {block_path})]
        ELSE [error |-> "RuntimeError", region |-> None,
              region_lines |-> RegionLinesTouch(rl, {block_path})]

\* Document.paths
DocumentPaths(regs) == DOMAIN regs

----------------------------------------------------------------------------
(* PlainTextComposition and the plain-text export of the regions.          *)

\* PlainTextComposition.__init__
NewComposition(line_separator, block_separator) ==
    [line_separator |-> line_separator, block_separator |-> block_separator,
     texts |-> <<>>, path |-> NoPath]

\* append_text remembering the path of a fragment before it looks at its text
AppendTextRemembersBlank(comp, path, text) ==
    LET stripped == Strip(text)
        separated == IF comp.path /= NoPath /\ Prefix(path, 3) /= Prefix(comp.path, 3)
                     THEN Append(comp.texts, comp.block_separator)
                     ELSE comp.texts
    IN  IF stripped = "" THEN [comp EXCEPT !.path = path]
        ELSE [comp EXCEPT !.texts = Append(separated, stripped \o "\n"),
                          !.path = path]

\* PlainTextComposition.append_text(path, text)
AppendText(comp, path, text) ==
    LET stripped == Strip(text)
        separated == IF comp.path /= NoPath /\ Prefix(path, 3) /= Prefix(comp.path, 3)
                     THEN Append(comp.texts, comp.block_separator)
                     ELSE comp.texts
    IN  IF stripped = "" THEN comp
        ELSE [comp EXCEPT !.texts = Append(separated, stripped \o "\n"),
                          !.path = path]

\* PlainTextComposition.text
CompositionText(comp) == Join("", comp.texts)

\* tabulate(table_data, tablefmt="psql", headers=headers) of the tabulate
\* library: one line per row with the cells between bars, and a rule under
\* the first row when it is the header
Tabulate(table_data, headers) ==
    LET line(row) == "| " \o Join(" | ", row) \o " |"
        lines == [k \in 1..Len(table_data) |-> line(table_data[k])]
    IN  IF headers = "firstrow" /\ Len(lines) > 0
        THEN Join("\n", <<lines[1], "|---|">> \o Tail(lines))
        ELSE Join("\n", lines)

\* to_text taking the first row as header whenever the table has two rows
ToTextHeaderByRows(region) ==
    LET columns == SortedInts(region.columns)
        divisions == SortedInts(region.divisions)
        rowsOf(division) == SortedInts(DictGet(region.rows, division, {}))
        cellText(division, row, column) ==
            LET texts == DictGet(region.texts, <<division, row, column>>, <<>>)
            IN  Join("\n", [k \in 1..Len(texts) |-> Strip(texts[k][2])])
        row_data(division, row) ==
            [c \in 1..Len(columns) |-> cellText(division, row, columns[c])]
        divisionData(division) ==
            [r \in 1..Len(rowsOf(division)) |-> row_data(division, rowsOf(division)[r])]
        Concat[d \in 0..Len(divisions)] ==
            IF d = 0 THEN <<>> ELSE Concat[d - 1] \o divisionData(divisions[d])
        table_data == Concat[Len(divisions)]
    IN  IF Len(columns) = 1
        THEN Join("\n", [k \in 1..Len(table_data) |-> Join("", table_data[k])])
        ELSE Tabulate(table_data, IF Len(table_data) >= 2 THEN "firstrow" ELSE "")

\* TableRegion.to_text
ToText(region) ==
    LET columns == SortedInts(region.columns)
        divisions == SortedInts(region.divisions)
        rowsOf(division) == SortedInts(DictGet(region.rows, division, {}))
        cellText(division, row, column) ==
            LET texts == DictGet(region.texts, <<division, row, column>>, <<>>)
            IN  Join("\n", [k \in 1..Len(texts) |-> Strip(texts[k][2])])
        row_data(division, row) ==
            [c \in 1..Len(columns) |-> cellText(division, row, columns[c])]
        divisionData(division) ==
            [r \in 1..Len(rowsOf(division)) |-> row_data(division, rowsOf(division)[r])]
        Concat[d \in 0..Len(divisions)] ==
            IF d = 0 THEN <<>> ELSE Concat[d - 1] \o divisionData(divisions[d])
        table_data == Concat[Len(divisions)]
        n_rows == [d \in 1..Len(divisions) |-> Len(rowsOf(divisions[d]))]
    IN  IF Len(columns) = 1
        THEN Join("\n", [k \in 1..Len(table_data) |-> Join("", table_data[k])])
        ELSE Tabulate(table_data,
                      IF Len(n_rows) >= 2 /\ n_rows[1] = 1 THEN "firstrow" ELSE "")

\* the append_text calls of TextRegion.export_plain_text_region, in order
RECURSIVE AppendTexts(_, _, _)
AppendTexts(comp, order, line_texts) ==
    IF Len(order) = 0 THEN comp
    ELSE AppendTexts(AppendText(comp, order[1], line_texts[order[1]]),
                     Tail(order), line_texts)

\* what a call on a region leaves: the composition, the append_text calls it
\* made, and the exception it raised
Appended(comp, cs, error) == [composition |-> comp, calls |-> cs, error |-> error]

\* region.export_plain_text_region(composition); GraphicRegion and
\* MergedTextRegion have no such method
ExportPlainTextRegion(region, comp) ==
    CASE region.class = "TextRegion" ->
            Appended(AppendTexts(comp, region.order, region.line_texts),
                     [k \in 1..Len(region.order) |->
                        <<region.order[k], region.line_texts[region.order[k]]>>],
                     "")
      [] region.class = "TableRegion" ->
            Appended(AppendText(comp, region.block_path, ToText(region)),
                     <<<<region.block_path, ToText(region)>>>>, "")
      [] OTHER -> Appended(comp, <<>>, "AttributeError")

\* region.export_plain_text_line(composition, line_path); only TextRegion
\* has the method
ExportPlainTextLine(region, comp, line_path) ==
    IF region.class /= "TextRegion" THEN Appended(comp, <<>>, "AttributeError")
    ELSE IF line_path \notin DOMAIN region.line_texts THEN Appended(comp, <<>>, "KeyError")
    ELSE Appended(AppendText(comp, line_path, region.line_texts[line_path]),
                  <<<<line_path, region.line_texts[line_path]>>>>, "")

\* RegionsFilter(options["regions"])(path): the path lies under the prefix
FilterAccepts(prefix, path) ==
    /\ Len(prefix) <= Len(path)
    /\ SubSeq(path, 1, Len(prefix)) = prefix

\* one round of the loop of ComposeProcessor.export_plain_text
ExportPlainTextPath(in, regs, rl, filter, comp, path) ==
    IF filter /= NoPath /\ ~FilterAccepts(filter, path)
    THEN [composition |-> comp, calls |-> <<>>, error |-> "", region_lines |-> rl]
    ELSE IF Len(path) \notin {3, 4}
    THEN [composition |-> comp, calls |-> <<>>, error |-> "RuntimeError", region_lines |-> rl]
    ELSE LET got == DocumentGet(in, regs, rl, Prefix(path, 3))
             out == IF Len(path) = 3
                    THEN ExportPlainTextRegion(got.region, comp)
                    ELSE ExportPlainTextLine(got.region, comp, path)
         IN  IF got.error /= "" \/ got.region = None
             THEN [composition |-> comp, calls |-> <<>>, error |-> got.error,
                   region_lines |-> got.region_lines]
             ELSE [composition |-> out.composition, calls |-> out.calls,
                   error |-> out.error, region_lines |-> got.region_lines]

----------------------------------------------------------------------------
(* RegionReadingOrder.                                                     *)

\* MergedTextRegion.__init__(document, block_path, lines)
NewMergedTextRegion(block_path, lines) ==
    [class |-> "MergedTextRegion",
     block_path |-> block_path,
     polygon |-> PolygonUnion({lines[k][2].image_space_polygon : k \in 1..Len(lines)}),
     lines |-> lines]

\* region_indices that start at 0 whatever regions the document has
RegionIndicesFromNone(paths) == [base \in {Prefix(p, 2) : p \in paths} |-> 0]

\* RegionReadingOrder.__init__, region_indices: the largest block index of
\* the regions of the document for each (namespace, class)
RegionIndices(paths) ==
    [base \in {Prefix(p, 2) : p \in paths} |->
        LET indices == {IntOf(p[3]) : p \in {q \in paths : Prefix(q, 2) = base}}
        IN  Max(0, CHOOSE m \in indices : \A n \in indices : n <= m)]

\* a reading order that goes on counting where the one before it stopped
NewReadingOrderCountingOn(regs) ==
    [ordered_regions |-> <<>>,
     regionless_text_lines |-> <<>>,
     region_indices |-> [base \in DOMAIN RegionIndices(DocumentPaths(regs))
                                   \cup DOMAIN ro.region_indices |->
                            IF base \in DOMAIN ro.region_indices
                            THEN ro.region_indices[base]
                            ELSE RegionIndices(DocumentPaths(regs))[base]],
     error |-> ""]

\* RegionReadingOrder.__init__ up to the loop
NewReadingOrder(regs) ==
    [ordered_regions |-> <<>>,
     regionless_text_lines |-> <<>>,
     region_indices |-> RegionIndices(DocumentPaths(regs)),
     error |-> ""]

\* _flush_regionless_lines taking the new index before it looks at the run
FlushRegionlessLinesCounting(in, r) ==
    LET run == r.regionless_text_lines
        base_path == IF Len(run) = 0 THEN <<"regions", "TEXT">> ELSE Prefix(run[1], 2)
        new_region_index == DictGet(r.region_indices, base_path, 0) + 1
        new_region_path == base_path \o <<Str(new_region_index)>>
        merged == NewMergedTextRegion(new_region_path,
                      [k \in 1..Len(run) |-> <<run[k], in.lines[run[k]]>>])
    IN  IF Len(run) = 0
        THEN [r EXCEPT !.region_indices = DictSet(@, base_path, new_region_index)]
        ELSE [r EXCEPT !.region_indices = DictSet(@, base_path, new_region_index),
                       !.ordered_regions = Append(@, [path |-> new_region_path,
                                                      region |-> merged]),
                       !.regionless_text_lines = <<>>]

\* RegionReadingOrder._flush_regionless_lines
FlushRegionlessLines(in, r) ==
    LET run == r.regionless_text_lines
        base_path == Prefix(run[1], 2)
        new_region_index == DictGet(r.region_indices, base_path, 0) + 1
        new_region_path == base_path \o <<Str(new_region_index)>>
        merged == NewMergedTextRegion(new_region_path,
                      [k \in 1..Len(run) |-> <<run[k], in.lines[run[k]]>>])
    IN  IF Len(run) = 0 THEN r
        ELSE IF \E k \in 1..Len(run) : Prefix(run[k], 2) /= base_path
        THEN [r EXCEPT !.error = "AssertionError"]
        ELSE IF \E k \in 1..Len(run) : run[k] \notin DOMAIN in.lines
        THEN [r EXCEPT !.region_indices = DictSet(@, base_path, new_region_index),
                       !.error = "KeyError"]
        ELSE [r EXCEPT !.region_indices = DictSet(@, base_path, new_region_index),
                       !.ordered_regions = Append(@, [path |-> new_region_path,
                                                      region |-> merged]),
                       !.regionless_text_lines = <<>>]

\* l0.image_space_polygon.distance(l1.image_space_polygon) < d
DistanceBelow(p0, p1, d) ==
    \E a \in p0, b \in p1 :
        (a[1] - b[1]) * (a[1] - b[1]) + (a[2] - b[2]) * (a[2] - b[2]) < d * d

AdjacentDistance == 5

\* _is_adjacent comparing the class of the blocks, [:2], where the code
\* compares the blocks, [:3]
IsAdjacentByClass(in, r, line_path) ==
    LET run == r.regionless_text_lines
    IN  IF Len(run) = 0 THEN FALSE
        ELSE IF Prefix(run[Len(run)], 2) /= Prefix(line_path, 2) THEN FALSE
        ELSE TRUE

\* RegionReadingOrder._is_adjacent(line_path)
IsAdjacent(in, r, line_path) ==
    LET run == r.regionless_text_lines
    IN  IF Len(run) = 0 THEN FALSE
        ELSE IF Prefix(run[Len(run)], 3) /= Prefix(line_path, 3) THEN FALSE
        ELSE IF DistanceBelow(in.lines[run[Len(run)]].image_space_polygon,
                              in.lines[line_path].image_space_polygon,
                              AdjacentDistance)
        THEN TRUE
        ELSE TRUE

\* what _is_adjacent raises: lines[...] of a path that is no line of the
\* page, when the run has a line of the same block
IsAdjacentError(in, r, line_path) ==
    LET run == r.regionless_text_lines
    IN  IF Len(run) = 0 THEN ""
        ELSE IF Prefix(run[Len(run)], 3) /= Prefix(line_path, 3) THEN ""
        ELSE IF run[Len(run)] \notin DOMAIN in.lines \/ line_path \notin DOMAIN in.lines
        THEN "KeyError"
        ELSE ""

\* RegionReadingOrder._add_regionless_line(line_path)
AddRegionlessLine(in, r, line_path) ==
    LET flushed == IF IsAdjacent(in, r, line_path) THEN r ELSE FlushRegionlessLines(in, r)
    IN  IF IsAdjacentError(in, r, line_path) /= ""
        THEN [r EXCEPT !.error = IsAdjacentError(in, r, line_path)]
        ELSE IF flushed.error /= "" THEN flushed
        ELSE [flushed EXCEPT !.regionless_text_lines = Append(@, line_path)]

\* append leaving out the paths that the filter of the processor rejects
ReadingOrderAppendFiltered(in, regs, rl, r, path) ==
    IF block_filter /= NoPath /\ ~FilterAccepts(block_filter, path)
    THEN [ro |-> r, region_lines |-> rl]
    ELSE IF Len(path) = 3
    THEN LET flushed == FlushRegionlessLines(in, r)
             got == DocumentGet(in, regs, rl, path)
         IN  IF got.error /= ""
             THEN [ro |-> [flushed EXCEPT !.error = got.error],
                   region_lines |-> got.region_lines]
             ELSE IF got.region /= None
             THEN [ro |-> [flushed EXCEPT !.ordered_regions =
                                Append(@, [path |-> path, region |-> got.region])],
                   region_lines |-> got.region_lines]
             ELSE [ro |-> flushed, region_lines |-> got.region_lines]
    ELSE [ro |-> AddRegionlessLine(in, r, path), region_lines |-> rl]

\* append flushing the run only for a block path that has a region
ReadingOrderAppendFlushingFound(in, regs, rl, r, path) ==
    IF Len(path) = 3
    THEN LET flushed == FlushRegionlessLines(in, r)
             got == DocumentGet(in, regs, rl, path)
         IN  IF got.error /= ""
             THEN [ro |-> [r EXCEPT !.error = got.error], region_lines |-> got.region_lines]
             ELSE IF got.region = None
             THEN [ro |-> r, region_lines |-> got.region_lines]
             ELSE IF flushed.error /= "" THEN [ro |-> flushed, region_lines |-> rl]
             ELSE [ro |-> [flushed EXCEPT !.ordered_regions =
                                Append(@, [path |-> path, region |-> got.region])],
                   region_lines |-> got.region_lines]
    ELSE IF Len(path) > 3
    THEN IF Prefix(path, 2) /= <<"regions", "TEXT">>
         THEN [ro |-> [r EXCEPT !.error = "AssertionError"], region_lines |-> rl]
         ELSE [ro |-> AddRegionlessLine(in, r, path), region_lines |-> rl]
    ELSE [ro |-> [r EXCEPT !.error = "ValueError"], region_lines |-> rl]

\* RegionReadingOrder.append(path); with it the _region_lines of the
\* document as Document.get leaves them
ReadingOrderAppend(in, regs, rl, r, path) ==
    IF Len(path) = 3
    THEN LET flushed == FlushRegionlessLines(in, r)
             got == DocumentGet(in, regs, rl, path)
         IN  IF flushed.error /= "" THEN [ro |-> flushed, region_lines |-> rl]
             ELSE IF got.error /= ""
             THEN [ro |-> [flushed EXCEPT !.error = got.error],
                   region_lines |-> got.region_lines]
             ELSE IF got.region /= None
             THEN [ro |-> [flushed EXCEPT !.ordered_regions =
                                Append(@, [path |-> path, region |-> got.region])],
                   region_lines |-> got.region_lines]
             ELSE [ro |-> flushed, region_lines |-> got.region_lines]
    ELSE IF Len(path) > 3
    THEN IF Prefix(path, 2) /= <<"regions", "TEXT">>
         THEN [ro |-> [r EXCEPT !.error = "AssertionError"], region_lines |-> rl]
         ELSE [ro |-> AddRegionlessLine(in, r, path), region_lines |-> rl]
    ELSE [ro |-> [r EXCEPT !.error = "ValueError"], region_lines |-> rl]

\* close leaving the run as it is
ReadingOrderCloseUnflushed(in, r) == r

\* RegionReadingOrder.close
ReadingOrderClose(in, r) == FlushRegionlessLines(in, r)

\* RegionReadingOrder.reading_order
ReadingOrderPaths(r) == [k \in 1..Len(r.ordered_regions) |-> r.ordered_regions[k].path]

\* RegionReadingOrder.regions
ReadingOrderRegions(r) == [k \in 1..Len(r.ordered_regions) |-> r.ordered_regions[k].region]

----------------------------------------------------------------------------
(* The PAGE XML export.  An element is [tag, id, coords, text, children];  *)
(* coords is <<>> before any Coords were given to the element.             *)

Element(tag, id, coords, text, children) ==
    [tag |-> tag, id |-> id, coords |-> coords, text |-> text, children |-> children]

\* pagexml.Document(filename, image_size)
NewPxDocument == [reading_order |-> <<>>, regions |-> <<>>]

\* what an export_page_xml leaves: the elements it added to the document
\* and did not remove, the exception it raised, and Document._region_lines
Exported(elements, error, rl) == [elements |-> elements, error |-> error, region_lines |-> rl]

\* the first index of a sequence of flags that is set, 0 if there is none
FirstTrue(flags) ==
    IF \E k \in 1..Len(flags) : flags[k]
    THEN CHOOSE k \in 1..Len(flags) : flags[k] /\ \A h \in 1..(k - 1) : ~flags[h]
    ELSE 0

\* the members of a sequence that are kept, in order
RECURSIVE Kept(_, _)
Kept(q, keep) ==
    IF Len(q) = 0 THEN <<>>
    ELSE (IF keep[1] THEN <<q[1]>> ELSE <<>>) \o Kept(Tail(q), Tail(keep))

\* MergedTextRegion.export_page_xml(px_document)
MergedTextRegionExportPageXml(in, regs, rl, region) ==
    LET n == Len(region.lines)
        got == [k \in 1..n |-> DocumentGet(in, regs, rl, Prefix(region.lines[k][1], 3))]
        \* self._document.get(line_path[:3]).get_line_text(line_path)
        lineError == [k \in 1..n |->
            IF got[k].error /= "" THEN got[k].error
            ELSE IF got[k].region.class /= "TextRegion" THEN "AttributeError"
            ELSE IF region.lines[k][1] \notin DOMAIN got[k].region.line_texts THEN "KeyError"
            ELSE ""]
        failed == FirstTrue([k \in 1..n |-> lineError[k] /= ""])
        px_line(k) ==
            Element("TextLine", Join("-", region.block_path \o <<Str(k - 1)>>),
                    <<Rewarp(in, region.lines[k][2].image_space_polygon)>>,
                    <<got[k].region.line_texts[region.lines[k][1]]>>, <<>>)
    IN  IF failed /= 0
        THEN Exported(<<>>, lineError[failed], got[failed].region_lines)
        ELSE Exported(<<Element("TextRegion", Join("-", region.block_path),
                                <<Rewarp(in, region.polygon)>>, <<>>,
                                [k \in 1..n |-> px_line(k)])>>,
                      "", rl)

\* TextRegion.export_page_xml(px_document)
TextRegionExportPageXml(in, rl, region) ==
    LET n == Len(region.order)
        empty(k) == IsEmpty(in.lines[region.order[k]].image_space_polygon)
        lineError == [k \in 1..n |->
            IF region.order[k] \notin region.lines THEN "KeyError"
            ELSE IF empty(k) /\ region.line_texts[region.order[k]] /= "" THEN "RuntimeError"
            ELSE ""]
        failed == FirstTrue([k \in 1..n |-> lineError[k] /= ""])
        px_line(k) ==
            Element("TextLine", Join("-", region.order[k]),
                    <<Rewarp(in, in.lines[region.order[k]].image_space_polygon)>>,
                    <<region.line_texts[region.order[k]]>>, <<>>)
    IN  IF failed /= 0 THEN Exported(<<>>, lineError[failed], rl)
        ELSE Exported(<<Element("TextRegion", Join("-", region.block_path),
                                <<Rewarp(in, region.polygon)>>, <<>>,
                                Kept([k \in 1..n |-> px_line(k)],
                                     [k \in 1..n |-> ~empty(k)]))>>,
                      "", rl)

\* GraphicRegion.export_page_xml(px_document)
GraphicRegionExportPageXml(in, rl, region) ==
    Exported(<<Element("GraphicRegion", Join("-", region.block_path),
                       <<Rewarp(in, region.block.image_space_polygon)>>, <<>>, <<>>)>>,
             "", rl)

\* TableRegion.export_page_xml(px_document): the cell of a division of a
\* column at a row, when there is a block for it with a polygon
TableCellElement(in, region, division_id, column, division, row) ==
    LET block == DictGet(region.blocks, <<column, division, row>>, None)
        texts == DictGet(region.texts, <<division, row, column>>, <<>>)
        px_line(k) ==
            Element("TextLine", Join("-", texts[k][1]),
                    <<Rewarp(in, in.lines[texts[k][1]].image_space_polygon)>>,
                    <<texts[k][2]>>, <<>>)
    IN  IF block = None THEN <<>>
        ELSE IF IsEmpty(block.image_space_polygon) THEN <<>>
        ELSE <<[element |-> Element("TextRegion", division_id \o "." \o Str(row),
                                    <<Rewarp(in, block.image_space_polygon)>>, <<>>,
                                    [k \in 1..Len(texts) |-> px_line(k)]),
                shape |-> block.image_space_polygon]>>

\* the concatenation of a sequence of sequences
RECURSIVE Flatten(_)
Flatten(qs) == IF Len(qs) = 0 THEN <<>> ELSE qs[1] \o Flatten(Tail(qs))

Elements(parts) == [k \in 1..Len(parts) |-> parts[k].element]

Shapes(parts) == {parts[k].shape : k \in 1..Len(parts)}

\* the division of a column that is not removed when it has no cell
TableDivisionElementKept(in, region, column_id, column, division) ==
    LET division_id == column_id \o "." \o Str(division)
        rows == SortedInts(DictGet(region.rows, division, {}))
        cells == Flatten([r \in 1..Len(rows) |->
                    TableCellElement(in, region, division_id, column, division, rows[r])])
    IN  <<[element |-> Element("TextRegion", division_id,
                               <<Rewarp(in, PolygonUnion(Shapes(cells)))>>, <<>>,
                               Elements(cells)),
           shape |-> PolygonUnion(Shapes(cells))]>>

\* the division of a column: kept, with the union of its cells as outline,
\* when it has a cell, removed from the column otherwise
TableDivisionElement(in, region, column_id, column, division) ==
    LET division_id == column_id \o "." \o Str(division)
        rows == SortedInts(DictGet(region.rows, division, {}))
        cells == Flatten([r \in 1..Len(rows) |->
                    TableCellElement(in, region, division_id, column, division, rows[r])])
    IN  IF Len(cells) > 0
        THEN <<[element |-> Element("TextRegion", division_id,
                                    <<Rewarp(in, PolygonUnion(Shapes(cells)))>>, <<>>,
                                    Elements(cells)),
                shape |-> PolygonUnion(Shapes(cells))]>>
        ELSE <<>>

\* the column of a table: kept when it has a division, removed otherwise
TableColumnElement(in, region, table_id, column) ==
    LET column_id == table_id \o "." \o Str(column)
        divisions == SortedInts(region.divisions)
        kept == Flatten([d \in 1..Len(divisions) |->
                    TableDivisionElement(in, region, column_id, column, divisions[d])])
    IN  IF Len(kept) > 0
        THEN <<[element |-> Element("TextRegion", column_id,
                                    <<Rewarp(in, PolygonUnion(Shapes(kept)))>>, <<>>,
                                    Elements(kept)),
                shape |-> PolygonUnion(Shapes(kept))]>>
        ELSE <<>>

\* the line paths of the cells that TableRegion.export_page_xml renders
TableRenderedLines(region) ==
    UNION {{DictGet(region.texts, <<key[2], key[3], key[1]>>, <<>>)[k][1] :
                k \in 1..Len(DictGet(region.texts, <<key[2], key[3], key[1]>>, <<>>))} :
           key \in {c \in DOMAIN region.blocks :
                        /\ ~IsEmpty(region.blocks[c].image_space_polygon)
                        /\ c[1] \in region.columns
                        /\ c[2] \in region.divisions
                        /\ c[3] \in DictGet(region.rows, c[2], {})}}

\* TableRegion.export_page_xml(px_document): the table is removed from the
\* document when no column is left
TableRegionExportPageXml(in, rl, region) ==
    LET table_id == Join("-", region.block_path)
        columns == SortedInts(region.columns)
        kept == Flatten([c \in 1..Len(columns) |->
                    TableColumnElement(in, region, table_id, columns[c])])
    IN  IF \E l \in TableRenderedLines(region) : l \notin region.lines
        THEN Exported(<<>>, "KeyError", rl)
        ELSE IF Len(kept) > 0
        THEN Exported(<<Element("TableRegion", table_id,
                                <<Rewarp(in, PolygonUnion(Shapes(kept)))>>, <<>>,
                                Elements(kept))>>,
                      "", rl)
        ELSE Exported(<<>>, "", rl)

\* region.export_page_xml(px_document)
ExportPageXml(in, regs, rl, region) ==
    CASE region.class = "MergedTextRegion" -> MergedTextRegionExportPageXml(in, regs, rl, region)
      [] region.class = "TextRegion" -> TextRegionExportPageXml(in, rl, region)
      [] region.class = "TableRegion" -> TableRegionExportPageXml(in, rl, region)
      [] region.class = "GraphicRegion" -> GraphicRegionExportPageXml(in, rl, region)

\* the reading-order section with the indices counted from 1
ReadingOrderRefsFromOne(paths) ==
    [k \in 1..Len(paths) |-> [index |-> k, region_ref |-> Join("-", paths[k])]]

\* the reading-order section of ComposeProcessor.export_page_xml
ReadingOrderRefs(paths) ==
    [k \in 1..Len(paths) |-> [index |-> k - 1, region_ref |-> Join("-", paths[k])]]

\* the ids of an element and of the elements below it, in document order
RECURSIVE ElementIds(_)
ElementIds(element) ==
    <<element.id>> \o Flatten([k \in 1..Len(element.children) |->
                                ElementIds(element.children[k])])

DocumentIds(px) == Flatten([k \in 1..Len(px.regions) |-> ElementIds(px.regions[k])])

\* px_document.write(f, validate=True): the PAGE schema declares the ids
\* xs:ID and the regionRef of the reading order xs:IDREF, so a document is
\* valid only if its ids are pairwise different and every regionRef is
\* the id of an element
Validates(px) ==
    /\ IsInjective(DocumentIds(px))
    /\ \A k \in 1..Len(px.reading_order) :
            px.reading_order[k].region_ref \in Range(DocumentIds(px))

----------------------------------------------------------------------------
(* The pages the model is checked on: two TEXT blocks, an illustration     *)
(* and a table of one or two cells.  The first TEXT block has two confident lines; *)
(* the second has a line or not, confident or not, with text or not; on    *)
(* the pages with a table it has a line with text.                         *)

TextBlockPath(b) == <<"regions", "TEXT", Str(b)>>

TextLinePath(b, l) == <<"regions", "TEXT", Str(b), Str(l)>>

IllustrationPath == <<"regions", "ILLUSTRATION", "1">>

TablePath == <<"regions", "TABULAR", "1">>

\* the sub-block of the table at (division, row, column)
TableCellPath(cell) ==
    <<"regions", "TABULAR", Join(".", <<"1", Str(cell[1]), Str(cell[2]), Str(cell[3])>>)>>

TableLinePath(cell) == TableCellPath(cell) \o <<"0">>

UnitPolygon == {<<0, 0>>}

Block(polygon) == [image_space_polygon |-> polygon]

Line(polygon, confidence) == [image_space_polygon |-> polygon, confidence |-> confidence]

\* the table of the page: none, or one cell whose block has a polygon or not
PageTables ==
    {<<>>} \cup {[p \in {TableCellPath(<<0, 0, 0>>)} |-> Block(polygon)] :
                    polygon \in {EmptyPolygon, UnitPolygon}}
           \cup {[p \in {TableCellPath(<<0, 0, 0>>), TableCellPath(<<1, 0, 1>>)} |->
                    Block(UnitPolygon)]}

\* the lines of the second TEXT block: none, or one line, confident or not
PageSecondLines ==
    {<<>>} \cup {[l \in {TextLinePath(2, 0)} |-> Line(UnitPolygon, c)] : c \in {0, 1}}

\* the OCR of the first TEXT block: both lines, and on the page without
\* further lines in either order
PageFirstOcr(table, second) ==
    {<<<<TextLinePath(1, 0), "Hello">>, <<TextLinePath(1, 1), "World">>>>}
    \cup (IF table = <<>> /\ second = <<>>
          THEN {<<<<TextLinePath(1, 1), "World">>, <<TextLinePath(1, 0), "Hello">>>>}
          ELSE {})

\* the OCR of the second TEXT block: text for its line if it is confident, or none
PageSecondOcr(second) ==
    {<<>>} \cup {<<<<l, " Origami">>>> : l \in {m \in DOMAIN second : second[m].confidence >= 1}}

PageRegions(table) ==
    [p \in {TextBlockPath(1), TextBlockPath(2), IllustrationPath} \cup DOMAIN table |->
        IF p \in DOMAIN table THEN table[p] ELSE Block(UnitPolygon)]

PageLines(table, second) ==
    [l \in {TextLinePath(1, 0), TextLinePath(1, 1)} \cup DOMAIN second
            \cup {p \o <<"0">> : p \in DOMAIN table} |->
        IF l \in DOMAIN second THEN second[l] ELSE Line(UnitPolygon, 1)]

PageTableOcr(table) ==
    LET IsDetectedCell(cell) == TableCellPath(cell) \in DOMAIN table
        cells == SelectSeq(<<<<0, 0, 0>>, <<1, 0, 1>>>>, IsDetectedCell)
    IN  [k \in 1..Len(cells) |-> <<TableLinePath(cells[k]), "a">>]

\* the reading orders: block paths and paths of TEXT lines of the page
PageOrders(table, second) ==
    SeqsUpTo({Join("/", p) :
                p \in {TextBlockPath(1), TextBlockPath(2), IllustrationPath,
                       TextLinePath(1, 0), TextLinePath(1, 1)}
                      \cup DOMAIN second
                      \cup {TablePath : q \in DOMAIN table}},
             MaxOrder)

Page(rs, ls, ocr, order) ==
    [regions |-> rs, lines |-> ls, min_confidence |-> 1, sorted_ocr |-> ocr,
     order |-> order, grid |-> <<0, 0>>, size |-> <<1, 1>>]

EmptyPage == Page(<<>>, <<>>, <<>>, <<>>)

\* the settings of --regions of the runs on one Document: none, then two prefixes
FilterSettings == <<NoPath, <<"regions", "TEXT">>, <<"regions", "TABULAR">>>>

\* bytes(options["paragraph"]) decoded: the separator of two blocks
Paragraph == "\n\n"

NoReadingOrder ==
    [ordered_regions |-> <<>>, regionless_text_lines |-> <<>>,
     region_indices |-> <<>>, error |-> ""]

NoArchive == [page_txt |-> <<>>, page_xml |-> <<>>]

NoError == [raised_in |-> "", exception |-> ""]

Init ==
    /\ \/ input = EmptyPage
       \/ \E table \in PageTables, second \in PageSecondLines :
            \E first \in PageFirstOcr(table, second), ocr \in PageSecondOcr(second),
               order \in PageOrders(table, second) :
                /\ table = <<>> \/ ocr /= <<>>
                /\ input = Page(PageRegions(table), PageLines(table, second),
                             first \o ocr \o PageTableOcr(table), order)
    /\ block_filter = FilterSettings[1]
    /\ pc = "process"
    /\ regions = <<>>
    /\ region_lines = <<>>
    /\ composition = NewComposition("\n", Paragraph)
    /\ calls = <<>>
    /\ i = 0
    /\ ro = NoReadingOrder
    /\ px_document = NewPxDocument
    /\ exported = <<>>
    /\ zf = NoArchive
    /\ err = NoError
    /\ outputs = <<>>

----------------------------------------------------------------------------
(* ComposeProcessor.process, step by step.                                 *)

\* an exception leaves the run
Raise(error) ==
    /\ pc' = "error"
    /\ err' = [raised_in |-> pc, exception |-> error]

\* process: a page without regions is skipped
ProcessSkip ==
    /\ pc = "process"
    /\ DOMAIN input.regions = {}
    /\ pc' = "skipped"
    /\ UNCHANGED <<input, block_filter, regions, region_lines, composition, calls, i,
                   ro, px_document, exported, zf, err, outputs>>

\* Document.__init__ up to the loop over sorted_ocr
NewDocument ==
    /\ pc = "process"
    /\ DOMAIN input.regions /= {}
    /\ region_lines' = RegionLines(input)
    /\ regions' = <<>>
    /\ i' = 1
    /\ pc' = "Document"
    /\ UNCHANGED <<input, block_filter, composition, calls, ro, px_document, exported,
                   zf, err, outputs>>

\* one round of the loop of Document.__init__ over sorted_ocr
DocumentAddLine(in, regs, rl, line_path, ocr_text) ==
    LET Stored(added, region) ==
            [error |-> "",
             regions |-> DictSet(added.regions, region.block_path, region),
             region_lines |-> added.region_lines]
        Filed(added, table_path, isTable) ==
            IF added.error /= ""
            THEN [error |-> added.error, regions |-> regs, region_lines |-> added.region_lines]
            ELSE Stored(added,
                        IF isTable
                        THEN AppendCellText(added.region, Tail(table_path), line_path, ocr_text)
                        ELSE AddText(added.region, line_path, ocr_text))
        Add(block_path, table_path, isTable) ==
            IF Prefix(block_path, 2) /= (IF isTable THEN <<"regions", "TABULAR">>
                                         ELSE <<"regions", "TEXT">>)
            THEN [error |-> "AssertionError", regions |-> regs, region_lines |-> rl]
            ELSE Filed(DocumentAdd(in, regs, rl,
                                   IF isTable THEN "TableRegion" ELSE "TextRegion",
                                   IF isTable THEN Prefix(block_path, 2) \o <<table_path[1]>>
                                   ELSE block_path),
                       table_path, isTable)
        Path(block_path, table_path) == Add(block_path, table_path, Len(table_path) > 1)
    IN  Path(Prefix(line_path, 3), Split(line_path[3], "."))

DocumentNextLine ==
    /\ pc = "Document"
    /\ i <= Len(input.sorted_ocr)
    /\ \E added \in {DocumentAddLine(input, regions, region_lines,
                                     input.sorted_ocr[i][1], input.sorted_ocr[i][2])} :
           /\ regions' = added.regions
           /\ region_lines' = added.region_lines
           /\ IF added.error /= ""
              THEN Raise(added.error) /\ UNCHANGED i
              ELSE i' = i + 1 /\ UNCHANGED <<pc, err>>
    /\ UNCHANGED <<input, block_filter, composition, calls, ro, px_document, exported,
                   zf, outputs>>

\* the graphics regions of Document.__init__, one for every illustration block
RECURSIVE AddGraphics(_, _, _, _)
AddGraphics(in, regs, rl, paths) ==
    IF paths = {} THEN [error |-> "", regions |-> regs, region_lines |-> rl]
    ELSE LET Rest(block_path, added) ==
                 IF added.error /= "" THEN added
                 ELSE AddGraphics(in, added.regions, added.region_lines, paths \ {block_path})
             First(block_path) ==
                 Rest(block_path, DocumentAdd(in, regs, rl, "GraphicRegion", block_path))
         IN  First(CHOOSE p \in paths : TRUE)

\* Document.__init__ after the loop; process then calls export_plain_text
DocumentAddGraphics ==
    /\ pc = "Document"
    /\ i > Len(input.sorted_ocr)
    /\ \E added \in {AddGraphics(input, regions, region_lines,
                         {p \in DOMAIN input.regions :
                             Prefix(p, 2) = <<"regions", "ILLUSTRATION">>})} :
           /\ regions' = added.regions
           /\ region_lines' = added.region_lines
           /\ IF added.error /= ""
              THEN Raise(added.error) /\ UNCHANGED <<i, composition>>
              ELSE /\ pc' = "export_plain_text"
                   /\ composition' = NewComposition("\n", Paragraph)
                   /\ i' = 1
                   /\ UNCHANGED err
    /\ UNCHANGED <<input, block_filter, calls, ro, px_document, exported, zf, outputs>>

\* one round of the loop of export_plain_text
ExportPlainTextNext ==
    /\ pc = "export_plain_text"
    /\ i <= Len(input.order)
    /\ \E out \in {ExportPlainTextPath(input, regions, region_lines, block_filter,
                                       composition, ReadingOrder(input)[i])} :
           /\ composition' = out.composition
           /\ calls' = calls \o out.calls
           /\ region_lines' = out.region_lines
           /\ IF out.error /= ""
              THEN Raise(out.error) /\ UNCHANGED i
              ELSE i' = i + 1 /\ UNCHANGED <<pc, err>>
    /\ UNCHANGED <<input, block_filter, regions, ro, px_document, exported, zf, outputs>>

\* process writing page.txt only after export_page_xml has returned
ExportPlainTextReturnUnwritten ==
    /\ pc = "export_plain_text"
    /\ i > Len(input.order)
    /\ \E page_xml \in BOOLEAN :
          IF page_xml
          THEN /\ pc' = "RegionReadingOrder"
               /\ px_document' = NewPxDocument
               /\ ro' = NewReadingOrder(regions)
               /\ exported' = <<>>
               /\ i' = 1
               /\ UNCHANGED zf
          ELSE /\ pc' = "done"
               /\ zf' = [zf EXCEPT !.page_txt = <<CompositionText(composition)>>]
               /\ UNCHANGED <<px_document, ro, exported, i>>
    /\ UNCHANGED <<input, block_filter, regions, region_lines, composition, calls,
                   err, outputs>>

\* export_plain_text returns and process writes page.txt; with --page-xml it
\* calls export_page_xml, which makes the RegionReadingOrder
ExportPlainTextReturn ==
    /\ pc = "export_plain_text"
    /\ i > Len(input.order)
    /\ zf' = [zf EXCEPT !.page_txt = <<CompositionText(composition)>>]
    /\ \E page_xml \in BOOLEAN :
          IF page_xml
          THEN /\ pc' = "RegionReadingOrder"
               /\ px_document' = NewPxDocument
               /\ ro' = NewReadingOrder(regions)
               /\ exported' = <<>>
               /\ i' = 1
          ELSE /\ pc' = "done"
               /\ UNCHANGED <<px_document, ro, exported, i>>
    /\ UNCHANGED <<input, block_filter, regions, region_lines, composition, calls,
                   err, outputs>>

\* one round of the loop of RegionReadingOrder.__init__: append(path)
ReadingOrderNext ==
    /\ pc = "RegionReadingOrder"
    /\ i <= Len(input.order)
    /\ \E out \in {ReadingOrderAppend(input, regions, region_lines, ro,
                                      ReadingOrder(input)[i])} :
           /\ ro' = out.ro
           /\ region_lines' = out.region_lines
           /\ IF out.ro.error /= ""
              THEN Raise(out.ro.error) /\ UNCHANGED i
              ELSE i' = i + 1 /\ UNCHANGED <<pc, err>>
    /\ UNCHANGED <<input, block_filter, regions, composition, calls, px_document,
                   exported, zf, outputs>>

\* RegionReadingOrder.__init__ ends with close(); export_page_xml then
\* writes the reading-order section
ReadingOrderReturn ==
    /\ pc = "RegionReadingOrder"
    /\ i > Len(input.order)
    /\ \E closed \in {ReadingOrderClose(input, ro)} :
           /\ ro' = closed
           /\ IF closed.error /= ""
              THEN Raise(closed.error) /\ UNCHANGED <<i, px_document>>
              ELSE /\ px_document' = [px_document EXCEPT !.reading_order =
                                        ReadingOrderRefs(ReadingOrderPaths(closed))]
                   /\ pc' = "export_page_xml"
                   /\ i' = 1
                   /\ UNCHANGED err
    /\ UNCHANGED <<input, block_filter, regions, region_lines, composition, calls,
                   exported, zf, outputs>>

\* one round of the loop of export_page_xml over ro.regions
ExportRegionNext ==
    /\ pc = "export_page_xml"
    /\ i <= Len(ro.ordered_regions)
    /\ \E out \in {ExportPageXml(input, regions, region_lines, ReadingOrderRegions(ro)[i])} :
           /\ px_document' = [px_document EXCEPT !.regions = @ \o out.elements]
           /\ exported' = Append(exported, ro.ordered_regions[i].path)
           /\ region_lines' = out.region_lines
           /\ IF out.error /= ""
              THEN Raise(out.error) /\ UNCHANGED i
              ELSE i' = i + 1 /\ UNCHANGED <<pc, err>>
    /\ UNCHANGED <<input, block_filter, regions, composition, calls, ro, zf, outputs>>

\* px_document.write(f, validate=True), and process writes page.xml
WritePageXml ==
    /\ pc = "export_page_xml"
    /\ i > Len(ro.ordered_regions)
    /\ IF Validates(px_document)
       THEN /\ zf' = [zf EXCEPT !.page_xml = <<px_document>>]
            /\ pc' = "done"
            /\ UNCHANGED err
       ELSE Raise("ValidationError") /\ UNCHANGED zf
    /\ UNCHANGED <<input, block_filter, regions, region_lines, composition, calls, i,
                   ro, px_document, exported, outputs>>

\* the same Document is exported again by a processor with the next setting
\* of --regions
NewRun ==
    /\ \/ pc = "error" /\ err.raised_in /= "Document"
       \/ pc = "done" /\ zf.page_xml /= <<>>
    /\ Len(outputs) + 1 < Len(FilterSettings)
    /\ outputs' = Append(outputs, [block_filter |-> block_filter, zf |-> zf, err |-> err])
    /\ block_filter' = FilterSettings[Len(outputs) + 2]
    /\ pc' = "export_plain_text"
    /\ composition' = NewComposition("\n", Paragraph)
    /\ calls' = <<>>
    /\ i' = 1
    /\ ro' = NoReadingOrder
    /\ px_document' = NewPxDocument
    /\ exported' = <<>>
    /\ zf' = NoArchive
    /\ err' = NoError
    /\ UNCHANGED <<input, regions, region_lines>>

Next ==
    \/ ProcessSkip
    \/ NewDocument
    \/ DocumentNextLine
    \/ DocumentAddGraphics
    \/ ExportPlainTextNext
    \/ ExportPlainTextReturn
    \/ ReadingOrderNext
    \/ ReadingOrderReturn
    \/ ExportRegionNext
    \/ WritePageXml
    \/ NewRun

Spec == Init /\ [][Next]_vars

----------------------------------------------------------------------------
(* The structured export on pages with shapes: the page is eight by eight, *)
(* its dewarping moved every point one to the right, and the blocks and    *)
(* lines reach over its edges.  The second line of the first TEXT block is *)
(* near the first, far from it, left of the page, or has no shape.         *)

OrderLinePolygons == {{<<1, 1>>}, {<<1, 7>>}, {<<0, 1>>}, EmptyPolygon}

OrderBlockPolygon(p) ==
    IF p = TextBlockPath(1) THEN {<<0, 3>>, <<1, 0>>, <<1, 7>>}
    ELSE IF p = IllustrationPath THEN {<<1, 1>>, <<9, 9>>}
    ELSE IF p = TableCellPath(<<0, 0, 0>>) THEN {<<0, 2>>, <<2, 2>>}
    ELSE {<<3, 3>>}

OrderLinePolygon(l, second) ==
    IF l = TextLinePath(1, 0) THEN {<<1, 0>>, <<2, 0>>}
    ELSE IF l = TextLinePath(1, 1) THEN second
    ELSE {<<0, 2>>, <<2, 2>>}

OrderPage(second, text, order) ==
    [regions |-> [p \in {TextBlockPath(1), TextBlockPath(2), IllustrationPath,
                         TableCellPath(<<0, 0, 0>>)} |-> Block(OrderBlockPolygon(p))],
     lines |-> [l \in {TextLinePath(1, 0), TextLinePath(1, 1), TableLinePath(<<0, 0, 0>>)} |->
                    Line(OrderLinePolygon(l, second), 1)],
     min_confidence |-> 1,
     sorted_ocr |-> <<<<TextLinePath(1, 0), "Hello">>, <<TextLinePath(1, 1), text>>,
                      <<TableLinePath(<<0, 0, 0>>), "a">>>>,
     order |-> order, grid |-> <<-1, 0>>, size |-> <<8, 8>>]

\* the entries of the reading orders: the blocks, the lines of the first
\* TEXT block, a path of two parts and a path of five
OrderEntries ==
    {Join("/", p) : p \in {TextBlockPath(1), TextBlockPath(2), IllustrationPath, TablePath,
                           TextLinePath(1, 0), TextLinePath(1, 1),
                           <<"regions", "TEXT">>, TextLinePath(1, 0) \o <<"0">>}}

\* the entries of the orders of the pages with every shape and text
ShapeEntries ==
    {Join("/", p) : p \in {TextBlockPath(1), IllustrationPath, TablePath,
                           TextLinePath(1, 0), TextLinePath(1, 1)}}

MaxShapeOrder == 2

\* the second line near or far under any order, or any shape and text of it
\* under a short order
OrderInit ==
    /\ \/ \E second \in {{<<1, 1>>}, {<<1, 7>>}}, order \in SeqsUpTo(OrderEntries, MaxOrder) :
            input = OrderPage(second, "World", order)
       \/ \E second \in OrderLinePolygons, text \in {"World", ""},
             order \in SeqsUpTo(ShapeEntries, MaxShapeOrder) :
            input = OrderPage(second, text, order)
    /\ block_filter = NoPath
    /\ pc = "process"
    /\ regions = <<>>
    /\ region_lines = <<>>
    /\ composition = NewComposition("\n", Paragraph)
    /\ calls = <<>>
    /\ i = 0
    /\ ro = NoReadingOrder
    /\ px_document = NewPxDocument
    /\ exported = <<>>
    /\ zf = NoArchive
    /\ err = NoError
    /\ outputs = <<>>

\* export_page_xml(page_path, document) called on the Document on its own
CallExportPageXml ==
    /\ pc = "export_plain_text"
    /\ i = 1
    /\ pc' = "RegionReadingOrder"
    /\ px_document' = NewPxDocument
    /\ ro' = NewReadingOrder(regions)
    /\ exported' = <<>>
    /\ UNCHANGED <<input, block_filter, regions, region_lines, composition, calls, i,
                   zf, err, outputs>>

OrderNext ==
    \/ NewDocument
    \/ DocumentNextLine
    \/ DocumentAddGraphics
    \/ ExportPlainTextNext
    \/ ExportPlainTextReturn
    \/ CallExportPageXml
    \/ ReadingOrderNext
    \/ ReadingOrderReturn
    \/ ExportRegionNext
    \/ WritePageXml

SpecOrder == OrderInit /\ [][OrderNext]_vars

----------------------------------------------------------------------------
(* The exports of one Document made twice by the same processor.           *)

\* the settings of --regions of a processor whose exports are made twice
AgainSettings == {NoPath, <<"regions", "TEXT">>}

\* the pages whose second TEXT block has no line
AgainInit ==
    /\ \E table \in PageTables :
            \E first \in PageFirstOcr(table, <<>>), order \in PageOrders(table, <<>>) :
                input = Page(PageRegions(table), PageLines(table, <<>>),
                             first \o PageTableOcr(table), order)
    /\ block_filter \in AgainSettings
    /\ pc = "process"
    /\ regions = <<>>
    /\ region_lines = <<>>
    /\ composition = NewComposition("\n", Paragraph)
    /\ calls = <<>>
    /\ i = 0
    /\ ro = NoReadingOrder
    /\ px_document = NewPxDocument
    /\ exported = <<>>
    /\ zf = NoArchive
    /\ err = NoError
    /\ outputs = <<>>

\* export_plain_text, and with --page-xml export_page_xml, are called on the
\* Document a second time; what the first calls made is kept for comparison
RunAgain ==
    /\ \/ pc = "error" /\ err.raised_in /= "Document"
       \/ pc = "done"
    /\ outputs = <<>>
    /\ outputs' = <<[block_filter |-> block_filter, zf |-> zf, err |-> err,
                     px_document |-> px_document, ro |-> ro, calls |-> calls]>>
    /\ pc' = "export_plain_text"
    /\ composition' = NewComposition("\n", Paragraph)
    /\ calls' = <<>>
    /\ i' = 1
    /\ zf' = NoArchive
    /\ err' = NoError
    /\ UNCHANGED <<input, block_filter, regions, region_lines, ro, px_document, exported>>

AgainNext ==
    \/ NewDocument
    \/ DocumentNextLine
    \/ DocumentAddGraphics
    \/ ExportPlainTextNext
    \/ ExportPlainTextReturn
    \/ ReadingOrderNext
    \/ ReadingOrderReturn
    \/ ExportRegionNext
    \/ WritePageXml
    \/ RunAgain

SpecAgain == AgainInit /\ [][AgainNext]_vars

----------------------------------------------------------------------------
(* PlainTextComposition on its own: any append_text calls.                 *)

MaxCalls == 3       \* number of append_text calls

\* the paths and the texts of the calls
CallPaths ==
    {TextBlockPath(1), TextLinePath(1, 0), TextLinePath(1, 1), TextLinePath(2, 0), TablePath}

CallTexts == {"Hello", " World\n", " ", ""}

TextInit ==
    /\ input = EmptyPage
    /\ block_filter = NoPath
    /\ pc = "PlainTextComposition"
    /\ regions = <<>>
    /\ region_lines = <<>>
    /\ composition = NewComposition("\n", Paragraph)
    /\ calls = <<>>
    /\ i = 0
    /\ ro = NoReadingOrder
    /\ px_document = NewPxDocument
    /\ exported = <<>>
    /\ zf = NoArchive
    /\ err = NoError
    /\ outputs = <<>>

\* composition.append_text(path, text)
TextAppend ==
    /\ pc = "PlainTextComposition"
    /\ Len(calls) < MaxCalls
    /\ \E path \in CallPaths, text \in CallTexts :
          /\ composition' = AppendText(composition, path, text)
          /\ calls' = Append(calls, <<path, text>>)
    /\ UNCHANGED <<input, block_filter, pc, regions, region_lines, i, ro, px_document,
                   exported, zf, err, outputs>>

\* composition.text
TextRead ==
    /\ pc = "PlainTextComposition"
    /\ zf' = [zf EXCEPT !.page_txt = <<CompositionText(composition)>>]
    /\ pc' = "text"
    /\ UNCHANGED <<input, block_filter, regions, region_lines, composition, calls, i,
                   ro, px_document, exported, err, outputs>>

TextNext == TextAppend \/ TextRead

SpecText == TextInit /\ [][TextNext]_vars

----------------------------------------------------------------------------
(* TableRegion on its own: a table of two columns and two divisions, any   *)
(* sub-blocks, any cells with text.                                        *)

MaxCellTexts == 2   \* number of lines of the table with text

\* the (division, row, column) of the table: division 0 has one row,
\* division 1 has two
TableCells == {<<0, 0, 0>>, <<0, 0, 1>>, <<1, 0, 0>>, <<1, 0, 1>>, <<1, 1, 0>>, <<1, 1, 1>>}

TableInit ==
    /\ \E cells \in SUBSET TableCells :
          \E polygons \in [cells -> {EmptyPolygon, UnitPolygon}] :
            input = Page([p \in {TableCellPath(c) : c \in cells} |->
                            Block(polygons[CHOOSE c \in cells : TableCellPath(c) = p])],
                         [l \in {TableLinePath(c) : c \in TableCells} |->
                            Line(UnitPolygon, 1)],
                         <<>>, <<>>)
    /\ block_filter = NoPath
    /\ pc = "TableRegion"
    /\ regions = <<>>
    /\ region_lines = RegionLines(input)
    /\ composition = NewComposition("\n", Paragraph)
    /\ calls = <<>>
    /\ i = 1
    /\ ro = NoReadingOrder
    /\ px_document = NewPxDocument
    /\ exported = <<>>
    /\ zf = NoArchive
    /\ err = NoError
    /\ outputs = <<>>

\* Document.__init__ reads a line of a cell of the table from sorted_ocr
TableAddLine ==
    /\ pc = "TableRegion"
    /\ i <= MaxCellTexts
    /\ \E cell \in TableCells :
          \E added \in {DocumentAddLine(input, regions, region_lines,
                                        TableLinePath(cell), "a")} :
              /\ added.error = ""
              /\ regions' = added.regions
              /\ region_lines' = added.region_lines
              /\ input' = [input EXCEPT !.sorted_ocr = Append(@, <<TableLinePath(cell), "a">>)]
    /\ i' = i + 1
    /\ UNCHANGED <<block_filter, pc, composition, calls, ro, px_document, exported,
                   zf, err, outputs>>

\* TableRegion.export_page_xml(px_document) of the table
TableExport ==
    /\ pc = "TableRegion"
    /\ TablePath \in DOMAIN regions
    /\ \E out \in {ExportPageXml(input, regions, region_lines, regions[TablePath])} :
           /\ out.error = ""
           /\ px_document' = [px_document EXCEPT !.regions = @ \o out.elements]
    /\ exported' = Append(exported, TablePath)
    /\ pc' = "TableRegion.export_page_xml"
    /\ UNCHANGED <<input, block_filter, regions, region_lines, composition, calls, i,
                   ro, zf, err, outputs>>

TableNext == TableAddLine \/ TableExport

SpecTable == TableInit /\ [][TableNext]_vars

----------------------------------------------------------------------------
(* The text of a TableRegion: the table with all its sub-blocks, lines     *)
(* with text in any of its cells, and to_text.                             *)

MaxTableTexts == 3   \* number of lines of the table with text

\* the texts of the OCR for a line of a cell
TableTexts == {"a", " b "}

TableTextInit ==
    /\ input = Page([p \in {TableCellPath(c) : c \in TableCells} |-> Block(UnitPolygon)],
                    [l \in {TableLinePath(c) : c \in TableCells} |-> Line(UnitPolygon, 1)],
                    <<>>, <<>>)
    /\ block_filter = NoPath
    /\ pc = "TableRegion"
    /\ regions = <<>>
    /\ region_lines = RegionLines(input)
    /\ composition = NewComposition("\n", Paragraph)
    /\ calls = <<>>
    /\ i = 1
    /\ ro = NoReadingOrder
    /\ px_document = NewPxDocument
    /\ exported = <<>>
    /\ zf = NoArchive
    /\ err = NoError
    /\ outputs = <<>>

\* Document.__init__ reads a line of a cell of the table, with its text,
\* from sorted_ocr
TableAddText ==
    /\ pc = "TableRegion"
    /\ i <= MaxTableTexts
    /\ \E cell \in TableCells, text \in TableTexts :
          \E added \in {DocumentAddLine(input, regions, region_lines,
                                        TableLinePath(cell), text)} :
              /\ added.error = ""
              /\ regions' = added.regions
              /\ region_lines' = added.region_lines
              /\ input' = [input EXCEPT !.sorted_ocr = Append(@, <<TableLinePath(cell), text>>)]
    /\ i' = i + 1
    /\ UNCHANGED <<block_filter, pc, composition, calls, ro, px_document, exported,
                   zf, err, outputs>>

\* TableRegion.export_plain_text_region(composition) of the table, which
\* calls to_text
TableToText ==
    /\ pc = "TableRegion"
    /\ TablePath \in DOMAIN regions
    /\ \E out \in {ExportPlainTextRegion(regions[TablePath], composition)} :
           /\ out.error = ""
           /\ composition' = out.composition
           /\ calls' = calls \o out.calls
    /\ pc' = "TableRegion.to_text"
    /\ UNCHANGED <<input, block_filter, regions, region_lines, i, ro, px_document,
                   exported, zf, err, outputs>>

TableTextNext == TableAddText \/ TableToText

SpecTableText == TableTextInit /\ [][TableTextNext]_vars

----------------------------------------------------------------------------
(* The properties.                                                         *)

IsMerged(region) == region.class = "MergedTextRegion"

IsDetected(region) == region.class /= "MergedTextRegion"

\* the maximal runs <<first, last>> of a reading order: consecutive line
\* paths of one block, with no other entry in between
LineRuns(order) ==
    {run \in (1..Len(order)) \X (1..Len(order)) :
        /\ run[1] <= run[2]
        /\ \A k \in run[1]..run[2] :
              Len(order[k]) > 3 /\ Prefix(order[k], 3) = Prefix(order[run[1]], 3)
        /\ \/ run[1] = 1
           \/ Len(order[run[1] - 1]) <= 3
           \/ Prefix(order[run[1] - 1], 3) /= Prefix(order[run[1]], 3)
        /\ \/ run[2] = Len(order)
           \/ Len(order[run[2] + 1]) <= 3
           \/ Prefix(order[run[2] + 1], 3) /= Prefix(order[run[1]], 3)}

\* the line paths of a merged region, in its order
MergedLinePaths(region) == [k \in 1..Len(region.lines) |-> region.lines[k][1]]

\* C1: when the RegionReadingOrder has taken the whole reading order and was
\* closed, every run of N consecutive line paths of one block has exactly
\* one merged text region, the regions stand in the order of the runs, and
\* the region of a run holds exactly its N line paths in their order.
C1_RunsAreMerged ==
    pc = "export_page_xml" =>
        LET order == ReadingOrder(input)
            runs == LineRuns(order)
            merged == SelectSeq(ReadingOrderRegions(ro), IsMerged)
        IN  /\ Len(merged) = Cardinality(runs)
            /\ \A run \in runs :
                  LET n == Cardinality({other \in runs : other[1] <= run[1]})
                  IN  MergedLinePaths(merged[n]) = SubSeq(order, run[1], run[2])

\* a reading order of three entries with a run of two lines was merged
C1_Witness ==
    /\ pc = "export_page_xml"
    /\ Len(input.order) = 3
    /\ \E run \in LineRuns(ReadingOrder(input)) : run[2] = run[1] + 1
    /\ \E k \in 1..Len(ro.ordered_regions) :
          /\ IsMerged(ro.ordered_regions[k].region)
          /\ Len(ro.ordered_regions[k].region.lines) = 2

\* C2: the index of the block path of a merged region is greater than the
\* index of every block of the page of the same namespace and class, with
\* or without a region, and greater than the index of every merged region
\* made before it.
C2_FreshIndex ==
    \A k \in 1..Len(ro.ordered_regions) :
        LET path == ro.ordered_regions[k].path
        IN  IsMerged(ro.ordered_regions[k].region) =>
              /\ \A b \in DOMAIN input.regions :
                    Prefix(b, 2) = Prefix(path, 2) => IntOf(b[3]) < IntOf(path[3])
              /\ \A j \in 1..(k - 1) :
                    (/\ IsMerged(ro.ordered_regions[j].region)
                     /\ Prefix(ro.ordered_regions[j].path, 2) = Prefix(path, 2))
                    => IntOf(ro.ordered_regions[j].path[3]) < IntOf(path[3])

\* the block entries of a reading order that have a region
HasRegion(path) == Len(path) = 3 /\ path \in DOMAIN regions

\* C3: the reading-order section of the document has one reference for
\* every region of the RegionReadingOrder, the i-th with index i (from 0)
\* and the id of the path of the i-th region; the detected regions among
\* them are the block entries of the input reading order that have a
\* region, in that order; the regions are exported in the same order, and
\* the region elements of the content section stand in that order.
C3_ReadingOrderRefs ==
    (pc = "export_page_xml" \/ zf.page_xml /= <<>>) =>
        /\ Len(px_document.reading_order) = Len(ro.ordered_regions)
        /\ \A k \in 1..Len(ro.ordered_regions) :
              px_document.reading_order[k] =
                  [index |-> k - 1, region_ref |-> Join("-", ro.ordered_regions[k].path)]
        /\ [k \in 1..Len(SelectSeq(ro.ordered_regions, LAMBDA e : IsDetected(e.region))) |->
               SelectSeq(ro.ordered_regions, LAMBDA e : IsDetected(e.region))[k].path]
             = SelectSeq(ReadingOrder(input), HasRegion)
        /\ exported = SubSeq(ReadingOrderPaths(ro), 1, Len(exported))
        /\ LET ids == [k \in 1..Len(px_document.regions) |-> px_document.regions[k].id]
               IsLeft(id) == id \in Range(ids)
           IN  ids = SelectSeq([k \in 1..Len(exported) |-> Join("-", exported[k])], IsLeft)

\* a document was written whose reading order has a merged region between
\* two detected regions
C3_Witness ==
    /\ zf.page_xml /= <<>>
    /\ Len(ro.ordered_regions) = 3
    /\ IsDetected(ro.ordered_regions[1].region)
    /\ IsMerged(ro.ordered_regions[2].region)
    /\ IsDetected(ro.ordered_regions[3].region)
    /\ Len(exported) = 3

\* C4: in the document that export_page_xml has put together and writes,
\* the region references of the reading-order section are exactly the ids
\* of the region elements of the content section, also when a table
\* without a column to render was left out.
C4_RefsAreExported ==
    ((pc = "export_page_xml" /\ i > Len(ro.ordered_regions)) \/ zf.page_xml /= <<>>) =>
        {px_document.reading_order[k].region_ref : k \in 1..Len(px_document.reading_order)}
          = {px_document.regions[k].id : k \in 1..Len(px_document.regions)}

\* a fragment of whitespace only
IsBlank(text) == \A k \in 1..Len(text) : IsSpace(SubSeq(text, k, k))

IsEmitted(call) == ~IsBlank(call[2])

\* the places of a sequence of calls where the block changes
Transitions(emitted) ==
    {k \in 2..Len(emitted) : Prefix(emitted[k][1], 3) /= Prefix(emitted[k - 1][1], 3)}

\* the number of separators a composition has before its k-th fragment
SeparatorsBefore(emitted, k) == Cardinality({t \in Transitions(emitted) : t <= k})

\* C5: after any sequence of append_text calls, with the calls of a
\* whitespace-only text left out: the composition has one entry for every
\* other call and one block separator for every two consecutive ones whose
\* blocks differ, standing between the two; no separator stands first or
\* last; the remembered path is the path of the last call that was not
\* whitespace-only; and the text is the entries put together.
C5_Separators ==
    pc \in {"PlainTextComposition", "text"} =>
        LET emitted == SelectSeq(calls, IsEmitted)
            texts == composition.texts
            separators == {k \in 1..Len(texts) : texts[k] = composition.block_separator}
        IN  /\ Cardinality(separators) = Cardinality(Transitions(emitted))
            /\ Len(texts) = Len(emitted) + Cardinality(Transitions(emitted))
            /\ \A k \in 1..Len(emitted) :
                  /\ texts[k + SeparatorsBefore(emitted, k)] = Strip(emitted[k][2]) \o "\n"
                  /\ k \in Transitions(emitted) <=> (k + SeparatorsBefore(emitted, k) - 1) \in separators
            /\ 1 \notin separators /\ Len(texts) \notin separators
            /\ composition.path = IF Len(emitted) = 0 THEN NoPath
                                  ELSE emitted[Len(emitted)][1]
            /\ pc = "text" => zf.page_txt = <<Join("", texts)>>

\* three calls were made, the second with whitespace only and of a third
\* block, the first and the last of two different blocks, and the text read
C5_Witness ==
    /\ pc = "text"
    /\ Len(calls) = 3
    /\ IsEmitted(calls[1]) /\ ~IsEmitted(calls[2]) /\ IsEmitted(calls[3])
    /\ Cardinality({Prefix(calls[k][1], 3) : k \in 1..3}) = 3
    /\ zf.page_txt = <<"Hello\n\n\nWorld\n">>

\* C6: export_plain_text without a filter over a reading order with the
\* block path of an illustration raises no error at that entry; and on the
\* page with the lines "Hello" and "World" in the first text block and the
\* reading order [text block, illustration], once export_plain_text is over
\* page.txt holds "Hello\nWorld\n".
C6_IllustrationInPlainText ==
    /\ (/\ pc = "error"
        /\ err.raised_in = "export_plain_text"
        /\ block_filter = NoPath)
       => ReadingOrder(input)[i] /= IllustrationPath
    /\ (/\ input.order = <<Join("/", TextBlockPath(1)), Join("/", IllustrationPath)>>
        /\ input.sorted_ocr = <<<<TextLinePath(1, 0), "Hello">>, <<TextLinePath(1, 1), "World">>>>
        /\ block_filter = NoPath
        /\ pc \in {"RegionReadingOrder", "export_page_xml", "done", "error"})
       => zf.page_txt = <<"Hello\nWorld\n">>

\* the block paths get is asked for: the blocks of the page, the table, and
\* a block the page does not have
GetPaths == {TextBlockPath(1), TextBlockPath(2), TextBlockPath(3), IllustrationPath, TablePath}

\* the outcome of get for a block path: "region", "None" or "RuntimeError"
GetOutcome(block_path) ==
    IF block_path \in DOMAIN regions THEN "region"
    ELSE IF \A l \in DOMAIN input.lines :
                Prefix(l, 3) = block_path => input.lines[l].confidence < input.min_confidence
    THEN "None"
    ELSE "RuntimeError"

\* get(block_path) of the Document as it is
GetIsOneOfThree ==
    pc \notin {"process", "skipped", "Document"} =>
        \A block_path \in GetPaths :
            LET got == DocumentGet(input, regions, region_lines, block_path)
            IN  CASE GetOutcome(block_path) = "region" ->
                        got.error = "" /\ got.region = regions[block_path]
                  [] GetOutcome(block_path) = "None" ->
                        got.error = "" /\ got.region = None
                  [] OTHER -> got.error = "RuntimeError"

\* the step of RegionReadingOrder.append that calls get for a block path
GetInAppend ==
    (/\ pc = "RegionReadingOrder"
     /\ i <= Len(input.order)
     /\ Len(ReadingOrder(input)[i]) = 3) =>
        LET block_path == ReadingOrder(input)[i]
            last == ro'.ordered_regions[Len(ro'.ordered_regions)]
        IN  CASE GetOutcome(block_path) = "region" ->
                    /\ pc' = pc /\ i' = i + 1
                    /\ last = [path |-> block_path, region |-> regions[block_path]]
              [] GetOutcome(block_path) = "None" ->
                    /\ pc' = pc /\ i' = i + 1
                    /\ SelectSeq(ReadingOrderRegions(ro'), IsDetected)
                         = SelectSeq(ReadingOrderRegions(ro), IsDetected)
              [] OTHER ->
                    pc' = "error" /\ err'.exception = "RuntimeError"

\* the Document is built: its regions stay as they are
RegionsStay == pc \notin {"process", "Document"} => regions' = regions

\* C7: get(block_path) returns the region of the path if the Document has
\* one; if not, it returns None when every line of the page under that block
\* path has a confidence below min_confidence (also when there is no such
\* line), and raises RuntimeError when one has not; RegionReadingOrder.append
\* goes on accordingly; and no step that calls get changes the regions of
\* the Document.
C7_GetOutcomes == [](GetIsOneOfThree) /\ [][GetInAppend /\ RegionsStay]_vars

\* get has raised for a block with a line at the threshold and no region
C7_Witness ==
    /\ pc = "error"
    /\ err = [raised_in |-> "RegionReadingOrder", exception |-> "RuntimeError"]
    /\ ReadingOrder(input)[i] = TextBlockPath(2)
    /\ TextBlockPath(2) \notin DOMAIN regions
    /\ input.lines[TextLinePath(2, 0)].confidence = input.min_confidence
    /\ Len(ro.ordered_regions) > 0

\* the block path of the sub-block of a cell element, from its id
\* table.column.division.row
CellBlockPath(cell_id) ==
    LET grid == Split(cell_id, ".")
    IN  TableCellPath(<<IntOf(grid[3]), IntOf(grid[4]), IntOf(grid[2])>>)

\* C8: in what TableRegion.export_page_xml leaves in the document, the table
\* element has a column element, every column element has a division
\* element, every division element has a cell element, and every cell
\* element is the cell of a detected sub-block of its (column, division,
\* row) whose polygon is not empty.
C8_TablePruned ==
    pc = "TableRegion.export_page_xml" =>
        \A t \in 1..Len(px_document.regions) :
            LET table == px_document.regions[t]
            IN  /\ Len(table.children) > 0
                /\ \A c \in 1..Len(table.children) :
                      LET column == table.children[c]
                      IN  /\ Len(column.children) > 0
                          /\ \A d \in 1..Len(column.children) :
                                LET division == column.children[d]
                                IN  /\ Len(division.children) > 0
                                    /\ \A r \in 1..Len(division.children) :
                                          LET block_path == CellBlockPath(division.children[r].id)
                                          IN  /\ block_path \in DOMAIN input.regions
                                              /\ ~IsEmpty(input.regions[block_path].image_space_polygon)

\* a table with texts in two columns and two divisions was exported with one
\* column of one division
C8_Witness ==
    /\ pc = "TableRegion.export_page_xml"
    /\ regions[TablePath].columns = {0, 1}
    /\ regions[TablePath].divisions = {0, 1}
    /\ Len(px_document.regions) = 1
    /\ Len(px_document.regions[1].children) = 1
    /\ Len(px_document.regions[1].children[1].children) = 1
    /\ \E p \in DOMAIN input.regions : IsEmpty(input.regions[p].image_space_polygon)

\* the cell elements of a table element
TableCellElements(table) ==
    UNION {UNION {Range(table.children[c].children[d].children) :
                    d \in 1..Len(table.children[c].children)} :
           c \in 1..Len(table.children)}

\* C9: a TextRegion of the Document has at least one line, and each of its
\* lines has an entry of sorted_ocr under its block path; a merged region of
\* the RegionReadingOrder has at least one line, and its lines are lines of
\* the page that the reading order names; the indices the RegionReadingOrder
\* has taken are as many as the merged regions it has made, so that a flush
\* of no line takes none; and a cell element of a table element of the
\* document is the cell of a detected sub-block of the table.
C9_RealSourceLines ==
    /\ \A p \in DOMAIN regions :
          regions[p].class = "TextRegion" =>
              /\ Len(regions[p].order) > 0
              /\ \A k \in 1..Len(regions[p].order) :
                    /\ Prefix(regions[p].order[k], 3) = p
                    /\ \E j \in 1..Len(input.sorted_ocr) :
                          input.sorted_ocr[j][1] = regions[p].order[k]
    /\ \A k \in 1..Len(ro.ordered_regions) :
          LET region == ro.ordered_regions[k].region
          IN  IsMerged(region) =>
                /\ Len(region.lines) > 0
                /\ \A l \in 1..Len(region.lines) :
                      /\ region.lines[l][1] \in DOMAIN input.lines
                      /\ region.lines[l][1] \in Range(ReadingOrder(input))
    /\ \A base \in DOMAIN ro.region_indices :
          ro.region_indices[base] =
              DictGet(RegionIndices(DOMAIN regions), base, 0)
              + Cardinality({k \in 1..Len(ro.ordered_regions) :
                                /\ IsMerged(ro.ordered_regions[k].region)
                                /\ Prefix(ro.ordered_regions[k].path, 2) = base})
    /\ \A t \in 1..Len(px_document.regions) :
          px_document.regions[t].tag = "TableRegion" =>
              \A cell \in TableCellElements(px_document.regions[t]) :
                  CellBlockPath(cell.id) \in DOMAIN input.regions

\* a document was written with a detected text region, a merged region and
\* a table of two cells: the flushes at the first entry and at the end had
\* no line
C9_Witness ==
    /\ zf.page_xml /= <<>>
    /\ Len(ro.ordered_regions) = 3
    /\ ro.ordered_regions[1].region.class = "TextRegion"
    /\ IsMerged(ro.ordered_regions[2].region)
    /\ ro.ordered_regions[3].region.class = "TableRegion"
    /\ Cardinality(TableCellElements(px_document.regions[3])) = 2

\* the page.xml of the runs on the Document so far, the present one last
WrittenPageXml ==
    [k \in 1..Len(outputs) |-> outputs[k].zf.page_xml] \o <<zf.page_xml>>

\* C10: the runs of export_page_xml on one Document under different
\* --regions filters that write a document write the same document; it has
\* the region of every block path of the reading order that has one and a
\* merged region for every line path of it, whatever the filter rejects;
\* export_plain_text appends text only for paths the filter accepts.
C10_FilterOnlyInPlainText ==
    /\ \A j, k \in 1..Len(WrittenPageXml) :
          (WrittenPageXml[j] /= <<>> /\ WrittenPageXml[k] /= <<>>)
          => WrittenPageXml[j] = WrittenPageXml[k]
    /\ zf.page_xml /= <<>> =>
          LET written == zf.page_xml[1]
              ids == {written.regions[k].id : k \in 1..Len(written.regions)}
          IN  \A k \in 1..Len(input.order) :
                  LET path == ReadingOrder(input)[k]
                  IN  /\ HasRegion(path) => Join("-", path) \in ids
                      /\ Len(path) > 3 =>
                            \E m \in 1..Len(ro.ordered_regions) :
                                /\ IsMerged(ro.ordered_regions[m].region)
                                /\ path \in Range(MergedLinePaths(ro.ordered_regions[m].region))
                                /\ Join("-", ro.ordered_regions[m].path) \in ids
    /\ block_filter /= NoPath =>
          \A k \in 1..Len(calls) : Prefix(calls[k][1], Len(block_filter)) = block_filter

\* the run without a filter and the run with the filter regions/TEXT have
\* written a document with the table and a merged region, and their texts
\* differ
C10_Witness ==
    /\ Len(outputs) = 1
    /\ outputs[1].block_filter = NoPath
    /\ block_filter = <<"regions", "TEXT">>
    /\ outputs[1].zf.page_xml /= <<>>
    /\ zf.page_xml /= <<>>
    /\ outputs[1].zf.page_txt /= zf.page_txt
    /\ \E k \in 1..Len(zf.page_xml[1].regions) : zf.page_xml[1].regions[k].tag = "TableRegion"
    /\ \E m \in 1..Len(ro.ordered_regions) : IsMerged(ro.ordered_regions[m].region)

\* the exports of a run that went into export_page_xml
InPageXml(e, archive) ==
    \/ e.raised_in \in {"RegionReadingOrder", "export_page_xml"}
    \/ archive.page_xml /= <<>>

\* C11: the exports are idempotent on a constructed Document.  When
\* export_plain_text has been called twice, the second call returns the text
\* of the first (or raises what the first raised), from the same append_text
\* calls; when export_page_xml has been called twice, the second call ends
\* as the first did, with the same reading order, the same merged regions
\* under the same indices and the same document.
C11_ExportsAreIdempotent ==
    (Len(outputs) = 1 /\ pc \in {"done", "error"}) =>
        /\ (err.raised_in = "export_plain_text") = (outputs[1].err.raised_in = "export_plain_text")
        /\ err.raised_in = "export_plain_text" => err = outputs[1].err
        /\ zf.page_txt = outputs[1].zf.page_txt
        /\ calls = outputs[1].calls
        /\ (InPageXml(err, zf) /\ InPageXml(outputs[1].err, outputs[1].zf)) =>
                /\ err = outputs[1].err
                /\ zf = outputs[1].zf
                /\ px_document = outputs[1].px_document
                /\ ro = outputs[1].ro

\* both runs wrote page.xml, with a merged region in it
C11_Witness ==
    /\ Len(outputs) = 1
    /\ pc = "done"
    /\ zf.page_xml /= <<>>
    /\ outputs[1].zf.page_xml /= <<>>
    /\ zf.page_txt /= <<"">>
    /\ \E k \in 1..Len(ro.ordered_regions) : IsMerged(ro.ordered_regions[k].region)

C13_IllegalPathsAreFatal ==
    /\ pc \in {"export_plain_text", "RegionReadingOrder"} =>
          \A k \in 1..(i - 1) :
              k <= Len(input.order) => Len(ReadingOrder(input)[k]) \in {3, 4}
    /\ \A k \in 1..Len(ro.regionless_text_lines) : Len(ro.regionless_text_lines[k]) = 4

\* the elements of a sequence of elements and the elements below them
RECURSIVE Descendants(_)
Descendants(es) ==
    IF Len(es) = 0 THEN {}
    ELSE {es[1]} \cup Descendants(es[1].children) \cup Descendants(Tail(es))

\* C14: every outline written to the structured output is clipped to the
\* page.  Every region, column, division, cell and line element of the PAGE
\* document has one outline, no point of it has a negative coordinate or
\* one beyond the width or height of the page, and the outline of a graphic
\* region is Document.rewarp of the polygon of its block.
C14_OutlinesAreClipped ==
    \A e \in Descendants(px_document.regions) :
        /\ Len(e.coords) = 1
        /\ \A pt \in e.coords[1] :
              /\ 0 <= pt[1] /\ pt[1] <= input.size[1]
              /\ 0 <= pt[2] /\ pt[2] <= input.size[2]
        /\ e.tag = "GraphicRegion" =>
              \E p \in DOMAIN input.regions :
                  /\ e.id = Join("-", p)
                  /\ e.coords[1] = GridInverse(input.grid, input.regions[p].image_space_polygon)
                                        \cap Box(input.size[1], input.size[2])

\* a document was written with a graphic region and a table whose outlines
\* were cut at the edge of the page
C14_Witness ==
    /\ zf.page_xml /= <<>>
    /\ \E e \in Descendants(zf.page_xml[1].regions) :
          /\ e.tag = "GraphicRegion"
          /\ e.coords[1] /= {}
          /\ e.coords[1] /= GridInverse(input.grid,
                                        input.regions[IllustrationPath].image_space_polygon)
    /\ \E e \in Descendants(zf.page_xml[1].regions) :
          /\ e.tag = "TableRegion"
          /\ \A c \in Descendants(e.children) : c.coords[1] /= {}
          /\ \E c \in Descendants(e.children) : c.tag = "TextLine"

\* the held lines of a TextRegion whose outline on the page, after rewarp,
\* has no point
ClippedAway(region) ==
    SelectSeq(region.order,
              LAMBDA l : IsEmpty(Rewarp(input, input.lines[l].image_space_polygon)))

\* C15: TextRegion.export_page_xml aborts on a held line whose transformed
\* geometry is empty and whose text is not, skips a held line whose
\* transformed geometry and text are both empty, and makes one line element
\* for every other held line, in emission order.  So a TextRegion that was
\* exported without an error has no held line with text whose transformed
\* geometry is empty, and its element has the line elements of the held
\* lines whose transformed geometry is not empty, in the order they are held.
C15_EmptyGeometryAborts ==
    pc = "export_page_xml" =>
        \A k \in 1..(i - 1) :
            (k <= Len(px_document.regions) /\ ro.ordered_regions[k].region.class = "TextRegion") =>
                LET region == ro.ordered_regions[k].region
                    kept == SelectSeq(region.order,
                                LAMBDA l : ~IsEmpty(Rewarp(input,
                                                input.lines[l].image_space_polygon)))
                IN  /\ \A n \in 1..Len(ClippedAway(region)) :
                          region.line_texts[ClippedAway(region)[n]] = ""
                    /\ [n \in 1..Len(px_document.regions[k].children) |->
                            px_document.regions[k].children[n].id]
                       = [n \in 1..Len(kept) |-> Join("-", kept[n])]

\* two lines of the page are of one block and nearer than the threshold
\* of _is_adjacent
NearInOneBlock(l0, l1) ==
    /\ Prefix(l0, 3) = Prefix(l1, 3)
    /\ DistanceBelow(input.lines[l0].image_space_polygon,
                     input.lines[l1].image_space_polygon, AdjacentDistance)

\* C16: a line is added to the run of the reading order only when the run
\* has a line, the new line is of the block of the last line of the run and
\* its polygon is within the distance threshold of that line's polygon;
\* otherwise the run is flushed first.  So any two lines that follow each
\* other in the pending run or in a merged region are of one block and
\* nearer than the threshold: two lines that are farther apart are in two
\* merged regions.
C16_FarLinesAreSplit ==
    /\ \A n \in 1..(Len(ro.regionless_text_lines) - 1) :
          (ro.regionless_text_lines[n] \in DOMAIN input.lines
           /\ ro.regionless_text_lines[n + 1] \in DOMAIN input.lines) =>
              NearInOneBlock(ro.regionless_text_lines[n], ro.regionless_text_lines[n + 1])
    /\ \A k \in 1..Len(ro.ordered_regions) :
          IsMerged(ro.ordered_regions[k].region) =>
              \A n \in 1..(Len(ro.ordered_regions[k].region.lines) - 1) :
                  NearInOneBlock(ro.ordered_regions[k].region.lines[n][1],
                                 ro.ordered_regions[k].region.lines[n + 1][1])

\* what the entries of a reading order come to, as <<first, last>>: the
\* block entries that have a region, and the runs of lines
OrderItems(order) ==
    {<<k, k>> : k \in {j \in 1..Len(order) : HasRegion(order[j])}} \cup LineRuns(order)

\* C17: the output of the RegionReadingOrder keeps the order of the input
\* across block entries and line entries.  When the whole reading order was
\* taken, the output has one region for every block entry that has a region
\* and one merged region for every run of lines, in the order in which they
\* begin in the input: the merged region of a run stands before the region
\* of the block entry that ended it, and a block entry without a region
\* adds nothing and ends the run, the lines before it and after it being
\* in different merged regions.
C17_OrderIsKept ==
    pc = "export_page_xml" =>
        LET order == ReadingOrder(input)
            items == OrderItems(order)
        IN  /\ Len(ro.ordered_regions) = Cardinality(items)
            /\ \A item \in items :
                  LET n == Cardinality({other \in items : other[1] <= item[1]})
                  IN  IF Len(order[item[1]]) = 3
                      THEN /\ IsDetected(ro.ordered_regions[n].region)
                           /\ ro.ordered_regions[n].path = order[item[1]]
                      ELSE /\ IsMerged(ro.ordered_regions[n].region)
                           /\ MergedLinePaths(ro.ordered_regions[n].region)
                                = SubSeq(order, item[1], item[2])

\* a line, a block entry without a region and the same line again came to
\* two merged regions
C17_Witness ==
    /\ pc = "export_page_xml"
    /\ Len(input.order) = 3
    /\ Len(ReadingOrder(input)[1]) = 4
    /\ ReadingOrder(input)[2] = TextBlockPath(2)
    /\ ReadingOrder(input)[3] = ReadingOrder(input)[1]
    /\ TextBlockPath(2) \notin DOMAIN regions
    /\ Len(ro.ordered_regions) = 2

\* an entry of a reading order that RegionReadingOrder.append takes as a line
IsLineEntry(path) == Len(path) > 3

\* C18: when the RegionReadingOrder has taken the whole reading order and
\* was closed, no run is pending, and the lines of its merged regions, one
\* region after the other, are the line entries of the reading order, each
\* as often as it occurs there and in that order: no line entry is lost,
\* none is in two merged regions, and the run at the end of the reading
\* order has its merged region.
C18_NoLineIsLost ==
    pc = "export_page_xml" =>
        /\ ro.regionless_text_lines = <<>>
        /\ Flatten([k \in 1..Len(SelectSeq(ReadingOrderRegions(ro), IsMerged)) |->
                        MergedLinePaths(SelectSeq(ReadingOrderRegions(ro), IsMerged)[k])])
             = SelectSeq(ReadingOrder(input), IsLineEntry)

\* a reading order of a block with a region and two lines after it, whose
\* last region is the merged region of the two
C18_Witness ==
    /\ pc = "export_page_xml"
    /\ Len(input.order) = 3
    /\ HasRegion(ReadingOrder(input)[1])
    /\ IsLineEntry(ReadingOrder(input)[2])
    /\ IsLineEntry(ReadingOrder(input)[3])
    /\ Len(ro.ordered_regions) = 2
    /\ IsMerged(ro.ordered_regions[2].region)
    /\ MergedLinePaths(ro.ordered_regions[2].region) = SubSeq(ReadingOrder(input), 2, 3)

\* the number of entries of sorted_ocr that Document.__init__ has taken
Ingested ==
    IF pc = "process" \/ pc = "skipped" THEN 0
    ELSE IF pc = "Document" \/ (pc = "error" /\ err.raised_in = "Document") THEN i - 1
    ELSE Len(input.sorted_ocr)

\* the line paths of the entries of sorted_ocr taken so far that are of a
\* block, in the order of sorted_ocr
OcrOrder(block_path) ==
    LET taken == SelectSeq(SubSeq(input.sorted_ocr, 1, Ingested),
                           LAMBDA entry : Prefix(entry[1], 3) = block_path)
    IN  [k \in 1..Len(taken) |-> taken[k][1]]

\* C19: the lines of a TextRegion are emitted in the order of the OCR
\* sequence.  The order of every TextRegion is the line paths of its block
\* in the order in which sorted_ocr has them, whatever their indices; when
\* export_plain_text has taken a first entry that is the block of a
\* TextRegion, its append_text calls are the lines of the region in that
\* order; and when export_page_xml has exported a first region that is a
\* TextRegion, the line elements of its element are in that order.
C19_OcrOrder ==
    /\ \A p \in DOMAIN regions :
          regions[p].class = "TextRegion" => regions[p].order = OcrOrder(p)
    /\ (/\ pc = "export_plain_text"
        /\ i = 2
        /\ HasRegion(ReadingOrder(input)[1])
        /\ regions[ReadingOrder(input)[1]].class = "TextRegion"
        /\ block_filter \in {NoPath, <<"regions", "TEXT">>}) =>
          [k \in 1..Len(calls) |-> calls[k][1]] = OcrOrder(ReadingOrder(input)[1])
    /\ (/\ pc = "export_page_xml"
        /\ i = 2
        /\ ro.ordered_regions[1].region.class = "TextRegion") =>
          /\ Len(px_document.regions) = 1
          /\ [k \in 1..Len(px_document.regions[1].children) |->
                  px_document.regions[1].children[k].id]
             = [k \in 1..Len(OcrOrder(ro.ordered_regions[1].path)) |->
                  Join("-", OcrOrder(ro.ordered_regions[1].path)[k])]

\* the OCR had the second line of the first TEXT block before the first;
\* the text and the document were written with the lines in that order
C19_Witness ==
    /\ pc = "done"
    /\ input.order = <<Join("/", TextBlockPath(1))>>
    /\ regions[TextBlockPath(1)].order = <<TextLinePath(1, 1), TextLinePath(1, 0)>>
    /\ zf.page_txt = <<"World\nHello\n">>
    /\ zf.page_xml /= <<>>
    /\ zf.page_xml[1].regions[1].children[1].text = <<"World">>

\* the block path of the region that Document.__init__ files a line under:
\* the base path of the table for the line of a cell, the block otherwise
RegionPathOf(line_path) ==
    IF Len(Split(line_path[3], ".")) > 1
    THEN Prefix(line_path, 2) \o <<Split(line_path[3], ".")[1]>>
    ELSE Prefix(line_path, 3)

\* the class of the region of a block path
ClassOf(block_path) ==
    IF block_path[2] = "TEXT" THEN "TextRegion"
    ELSE IF block_path[2] = "TABULAR" THEN "TableRegion"
    ELSE "GraphicRegion"

\* the lines that a TableRegion holds texts for
CellLinePaths(region) ==
    UNION {{region.texts[cell][k][1] : k \in 1..Len(region.texts[cell])} :
           cell \in DOMAIN region.texts}

\* Document.__init__ is in its loop over sorted_ocr, or has returned
ConstructedSoFar == pc \notin {"process", "skipped"} /\ err.raised_in /= "Document"

\* C20: Document.__init__ makes one region for every block path that an
\* ingested line or table cell is filed under, all cells of a table under
\* the base path of the table, and every later line of the path goes to
\* that region: the regions are those of the paths of the entries taken so
\* far, each of the kind of its path, a TextRegion holding every line taken
\* for its block and a TableRegion every line taken for its cells; and once
\* __init__ has returned there is a GraphicRegion for every illustration
\* block of the page, in the reading order or not.
C20_OneRegionPerPath ==
    ConstructedSoFar =>
        /\ {p \in DOMAIN regions : regions[p].class /= "GraphicRegion"}
             = {RegionPathOf(input.sorted_ocr[k][1]) : k \in 1..Ingested}
        /\ \A p \in DOMAIN regions :
              /\ regions[p].class = ClassOf(p)
              /\ regions[p].block_path = p
              /\ regions[p].class = "TextRegion" =>
                    Range(regions[p].order)
                        = {input.sorted_ocr[k][1] : k \in {j \in 1..Ingested :
                                RegionPathOf(input.sorted_ocr[j][1]) = p}}
              /\ regions[p].class = "TableRegion" =>
                    CellLinePaths(regions[p])
                        = {input.sorted_ocr[k][1] : k \in {j \in 1..Ingested :
                                RegionPathOf(input.sorted_ocr[j][1]) = p}}
        /\ {p \in DOMAIN regions : regions[p].class = "GraphicRegion"}
             = IF pc = "Document" THEN {}
               ELSE {p \in DOMAIN input.regions : Prefix(p, 2) = <<"regions", "ILLUSTRATION">>}

\* the Document of a page with a table of two cells was made: the table
\* has one region with the lines of both cells, the first TEXT block one
\* region with its two lines, and the illustration, which the reading order
\* does not name, has its region
C20_Witness ==
    /\ pc = "export_plain_text"
    /\ TablePath \in DOMAIN regions
    /\ Cardinality(CellLinePaths(regions[TablePath])) = 2
    /\ Len(regions[TextBlockPath(1)].order) = 2
    /\ IllustrationPath \in DOMAIN regions
    /\ Join("/", IllustrationPath) \notin Range(input.order)

\* the rows of a table that have a cell with text, as <<division, row>>
TableRowPairs(region) ==
    {dr \in region.divisions \X UNION {region.rows[d] : d \in DOMAIN region.rows} :
        dr[2] \in DictGet(region.rows, dr[1], {})}

\* the rows of a table from the first of the first division to the last of
\* the last
TableRowSeq(region) ==
    LET codes == SortedInts({dr[1] * 10 + dr[2] : dr \in TableRowPairs(region)})
    IN  [k \in 1..Len(codes) |-> <<codes[k] \div 10, codes[k] % 10>>]

\* the first division of a table
FirstDivision(region) == CHOOSE d \in region.divisions : \A e \in region.divisions : d <= e

\* a rendered table has the line that sets the header off
HasHeader(text) == "|---|" \in Range(Split(text, "\n"))

\* C21: to_text renders by the shape of the table.  The text of a table of
\* one column is its rows joined by newlines, each row the stripped texts
\* of its cell, with no header line; the text of a table of more columns
\* has the first row as header exactly when the table has at least two rows
\* in all and its first division has exactly one row; and that is the case
\* exactly when the table has at least two divisions and one row in the
\* first, which is what the code tests.
C21_ToTextByShape ==
    pc = "TableRegion.to_text" =>
        LET region == regions[TablePath]
            text == calls[1][2]
            rows == TableRowSeq(region)
            column == CHOOSE c \in region.columns : TRUE
            CellText(dr) ==
                Join("\n", [k \in 1..Len(DictGet(region.texts, <<dr[1], dr[2], column>>, <<>>)) |->
                                Strip(region.texts[<<dr[1], dr[2], column>>][k][2])])
            headed == /\ Len(rows) >= 2
                      /\ Cardinality(region.rows[FirstDivision(region)]) = 1
        IN  /\ Len(calls) = 1
            /\ calls[1][1] = TablePath
            /\ headed = (/\ Cardinality(region.divisions) >= 2
                         /\ Cardinality(region.rows[FirstDivision(region)]) = 1)
            /\ IF Cardinality(region.columns) = 1
               THEN /\ text = Join("\n", [k \in 1..Len(rows) |-> CellText(rows[k])])
                    /\ ~HasHeader(text)
               ELSE HasHeader(text) = headed

\* the text of a table of two columns and two divisions, the first of one
\* row and the second of two, was made with a header
C21_Witness ==
    /\ pc = "TableRegion.to_text"
    /\ regions[TablePath].columns = {0, 1}
    /\ regions[TablePath].divisions = {0, 1}
    /\ Cardinality(regions[TablePath].rows[1]) = 2
    /\ HasHeader(calls[1][2])

\* the entries of a reading order that are block paths
BlockEntries(order) == SelectSeq(order, LAMBDA path : Len(path) = 3)

\* C22: when the block entries of the reading order are pairwise different,
\* the region ids of the reading-order section of the document are pairwise
\* different: the path of every merged region is the path of no region of
\* the Document and of no other merged region, and no two references of
\* the section name the same id.
C22_RefsAreDistinct ==
    IsInjective(BlockEntries(ReadingOrder(input))) =>
        /\ \A k \in 1..Len(ro.ordered_regions) :
              IsMerged(ro.ordered_regions[k].region) =>
                  /\ ro.ordered_regions[k].path \notin DOMAIN regions
                  /\ \A j \in 1..Len(ro.ordered_regions) :
                        ro.ordered_regions[j].path = ro.ordered_regions[k].path => j = k
        /\ IsInjective([k \in 1..Len(px_document.reading_order) |->
                            px_document.reading_order[k].region_ref])

\* the reading-order section was written for a line, its block and the
\* other line of the block: a merged region, the region of the block and a
\* second merged region
C22_Witness ==
    /\ Len(px_document.reading_order) = 3
    /\ IsMerged(ro.ordered_regions[1].region)
    /\ ro.ordered_regions[2].path = TextBlockPath(1)
    /\ IsDetected(ro.ordered_regions[2].region)
    /\ IsMerged(ro.ordered_regions[3].region)

====
